---------------------------- MODULE Spec2Model ----------------------------
(***************************************************************************)
(* Model of the charting dashboard's request handlers (chart data, table   *)
(* data, export, columns, distinct values) and of the pure helpers that    *)
(* shape chart data (buildAggregatedQuery, transformPieChartData).         *)
(*                                                                         *)
(* Request strings are sequences of one-character strings, so that the     *)
(* character tests of the code (the identifier regex, String.includes,     *)
(* String.split) are computed and not assumed.  An absent query parameter  *)
(* (searchParams.get(...) = null) is the value Null.                       *)
(***************************************************************************)
EXTENDS Integers, Sequences, FiniteSets, TLC

VARIABLES
    pc,        \* "idle": no request in flight; "done": a handler has answered
    handler,   \* the handler that answered ("none" when idle)
    request,   \* the query parameters of the request
    response,  \* [status, error, series, body]: the JSON response
    executed,  \* the statements handed to executeQuery, in order
    agg,       \* buildAggregatedQuery: its inputs and its result
    pie,       \* transformPieChartData: its input and its result
    db,        \* the contents of the database, as far as the handlers read it
    fmt,       \* formatValue: its argument and its result
    line,      \* buildLineChartQuery: the column it bins and the result
    calls,     \* executeQuery: the position of every call in flight
    connections,  \* the database connections that are open
    cache,     \* the entries of the LRU cache of lib/cache.ts
    earlier,   \* an exchange that was answered before, for comparison
    walk,      \* a client fetching the pages of the data endpoint in turn
    race,      \* one data request whose two queries run beside a writer
    grid,      \* DataTable: its props, its page state and the data shown
    form,      \* ChartControls: the state of the chart form
    store      \* useDashboardStore: the state of the dashboard store

vars ==
    <<pc, handler, request, response, executed, agg, pie, db, fmt, line,
      calls, connections, cache, earlier, walk, race, grid, form, store>>

\* the state of the server side, and of the browser side
ServerVars ==
    <<pc, handler, request, response, executed, agg, pie, db, fmt, line,
      calls, connections, cache, earlier>>

ClientVars == <<walk, race, grid, form, store>>

---------------------------------------------------------------------------
(* Strings *)

Null == <<"null">>

LowerCase == {"a","b","c","d","e","f","g","h","i","j","k","l","m",
              "n","o","p","q","r","s","t","u","v","w","x","y","z"}
UpperCase == {"A","B","C","D","E","F","G","H","I","J","K","L","M",
              "N","O","P","Q","R","S","T","U","V","W","X","Y","Z"}
DigitChars == {"0","1","2","3","4","5","6","7","8","9"}

\* JavaScript truthiness of a string-or-null: null and "" are falsy.
Truthy(s) == s # Null /\ s # <<>>

\* value || fallback
OrElse(s, fallback) == IF Truthy(s) THEN s ELSE fallback

\* String.prototype.includes
Includes(s, sub) ==
    \E i \in 0..(Len(s) - Len(sub)) : SubSeq(s, i + 1, i + Len(sub)) = sub

\* String.prototype.split(',') : "a,b" -> <<"a","b">>, "" -> <<"">>
RECURSIVE SplitFrom(_, _, _)
SplitFrom(s, i, cur) ==
    IF i > Len(s) THEN <<cur>>
    ELSE IF s[i] = "," THEN <<cur>> \o SplitFrom(s, i + 1, <<>>)
    ELSE SplitFrom(s, i + 1, Append(cur, s[i]))

Split(s) == SplitFrom(s, 1, <<>>)

\* Array.prototype.filter(Boolean) on an array of strings
FilterTruthy(ss) == SelectSeq(ss, LAMBDA e : e # <<>>)

Range(f) == {f[i] : i \in DOMAIN f}

---------------------------------------------------------------------------
(* Literals of the code *)

S_bar == <<"b","a","r">>
S_line == <<"l","i","n","e">>
S_pie == <<"p","i","e">>
S_histogram == <<"h","i","s","t","o","g","r","a","m">>
S_none == <<"n","o","n","e">>
S_sum == <<"s","u","m">>
S_avg == <<"a","v","g">>
S_count == <<"c","o","u","n","t">>

VALID_CHART_TYPES_Extra ==
    <<S_bar, S_line, S_pie, S_histogram, <<"s","c","a","t","t","e","r">>>>

VALID_CHART_TYPES == <<S_bar, S_line, S_pie, S_histogram>>

VALID_AGGREGATIONS == <<S_none, S_sum, S_avg, S_count>>

\* /^[a-zA-Z0-9_]+$/.test(str); test() coerces null to the text "null"
isValidIdentifier_Star(str) ==
    \/ str = Null
    \/ \A i \in 1..Len(str) :
            str[i] \in LowerCase \cup UpperCase \cup DigitChars \cup {"_"}

isValidIdentifier(str) ==
    \/ str = Null
    \/ /\ Len(str) >= 1
       /\ \A i \in 1..Len(str) :
            str[i] \in LowerCase \cup UpperCase \cup DigitChars \cup {"_"}

isValidChartType(value) == value \in Range(VALID_CHART_TYPES)

isValidAggregation(value) == value \in Range(VALID_AGGREGATIONS)

---------------------------------------------------------------------------
(* Requests, responses, statements *)

\* The query parameters a handler reads; a parameter the request does not
\* carry is Null.  filters is the list of (filter_column_i, filter_value_i).
NoRequest ==
    [table |-> Null, xAxis |-> Null, yAxis |-> Null, chartType |-> Null,
     aggregation |-> Null, columns |-> Null, column |-> Null,
     sortBy |-> Null, sortOrder |-> Null, filters |-> <<>>,
     page |-> Null, pageSize |-> Null]

\* the other fields of a JSON response body, where a handler has some
NoBody == [kind |-> "none"]

NoResponse == [status |-> 0, error |-> "", series |-> <<>>, body |-> NoBody]

\* NextResponse.json({ error }, { status })
ErrorResponse(status, error) ==
    [status |-> status, error |-> error, series |-> <<>>, body |-> NoBody]

\* NextResponse.json({ data: [{ name, data }, ...] })
DataResponse(series) ==
    [status |-> 200, error |-> "", series |-> series, body |-> NoBody]

\* NextResponse.json({ ... })
JsonResponse(body) ==
    [status |-> 200, error |-> "", series |-> <<>>, body |-> body]

\* One call of executeQuery(query, params).  embedded lists the request
\* strings spliced into the SQL text, params the bound parameters; ys and
\* groupBy are the y expressions and the GROUP BY columns of a chart query.
Stmt_Insert(name, kind, embedded, params, ys, groupBy) ==
    [name |-> name, kind |-> "INSERT", embedded |-> embedded, params |-> params,
     ys |-> ys, groupBy |-> groupBy]

Stmt(name, kind, embedded, params, ys, groupBy) ==
    [name |-> name, kind |-> kind, embedded |-> embedded, params |-> params,
     ys |-> ys, groupBy |-> groupBy]

\* What a handler leaves behind: its response and the statements it ran.
Outcome(resp, stmts) == [response |-> resp, executed |-> stmts]

\* The statements stmts[1..], run in order by executeQuery, of which call
\* number failAt throws (0: none does).
Ran(stmts, failAt) ==
    IF failAt \in 1..Len(stmts) THEN SubSeq(stmts, 1, failAt) ELSE stmts

Threw(stmts, failAt) == failAt \in 1..Len(stmts)

---------------------------------------------------------------------------
(* Chart data endpoint: src/app/api/chart-data/route.ts *)

\* getAggregationFunction(aggregation, dataType): dataType is not read
getAggregationFunction(aggregation, dataType) ==
    IF aggregation = S_none THEN ""
    ELSE IF aggregation = S_sum THEN "SUM"
    ELSE IF aggregation = S_avg THEN "AVG"
    ELSE IF aggregation = S_count THEN "COUNT"
    ELSE ""

\* `${aggFunc}(${y})`: with aggFunc = "" this is the parenthesised column
\* "(y)", no function call.
YExpr(fn, col, alias) ==
    [fn |-> fn, col |-> col, alias |-> alias, series |-> <<>>]

\* a y expression of a sub-query that also selects `'${series}' as series`
WithSeries(e, series) == [e EXCEPT !.series = series]

IsAggregateCall(e) == e.fn \in {"SUM", "AVG", "COUNT"}

\* The INFORMATION_SCHEMA.COLUMNS lookup of buildChartQuery: table and
\* columns are bound parameters.
ChartTypeQuery(table, xAxis, yAxes) ==
    Stmt("typeQuery", "SELECT", <<>>, <<table, xAxis>> \o yAxes, <<>>, <<>>)

\* The statement buildChartQuery returns.
buildChartQuery(table, xAxis, yAxes, chartType, aggregation) ==
    IF chartType = S_pie
    THEN LET aggFunc == getAggregationFunction(aggregation, "number")
         IN  Stmt("pieQuery", "SELECT",
                  <<xAxis, yAxes[1], table, xAxis, xAxis>>, <<>>,
                  <<YExpr(aggFunc, yAxes[1], <<"y">>)>>,
                  <<xAxis>>)
    ELSE Stmt("chartQuery", "SELECT",
              <<xAxis>> \o yAxes \o yAxes \o <<table>>
                 \o (IF aggregation # S_none THEN <<xAxis>> ELSE <<>>)
                 \o <<xAxis>>,
              <<>>,
              [i \in 1..Len(yAxes) |->
                  YExpr(getAggregationFunction(aggregation, ""),
                        yAxes[i], yAxes[i])],
              IF aggregation # S_none THEN <<xAxis>> ELSE <<>>)

\* The keys of a row of the statement's result: x and the alias of each y
\* expression.
RowKeys(stmt) == {<<"x">>} \cup {stmt.ys[i].alias : i \in 1..Len(stmt.ys)}

\* results.map(row => ({ x: row.x, y: row[y] })) for each y-axis column: the
\* keys a point has once serialised, and where its y comes from.
ChartPoints(yAxes, stmt) ==
    [i \in 1..Len(yAxes) |->
        IF yAxes[i] \in RowKeys(stmt)
        THEN [keys |-> {"x", "y"}, y |-> "computed"]
        ELSE [keys |-> {"x"}, y |-> "undefined"]]

\* NextResponse.json({ data: chartData })
ChartResponse(yAxes, stmt) ==
    [status |-> 200, error |-> "", series |-> yAxes,
     body |-> [kind |-> "chart", points |-> ChartPoints(yAxes, stmt)]]

\* The fields of a data point that PlotlyChart reads, by chart type
RendererFields(chartType) ==
    IF chartType = S_pie THEN {"label", "value"}
    ELSE IF chartType = S_histogram THEN {"value"}
    ELSE {"x", "y"}

\* GET of the chart data route.  failAt: the executeQuery call that throws.
ChartDataGET_Handle(req, failAt) ==
    LET table == req.table
        xAxis == req.xAxis
        yAxis == req.yAxis
        requestedChartType == OrElse(req.chartType, <<>>)
        requestedAggregation == OrElse(req.aggregation, S_none)
        yAxes == Split(yAxis)
        stmts == <<ChartTypeQuery(table, xAxis, yAxes),
                   buildChartQuery(table, xAxis, yAxes, requestedChartType,
                                   requestedAggregation)>>
    IN  IF ~Truthy(table) \/ ~Truthy(xAxis) \/ ~Truthy(yAxis)
        THEN Outcome(ErrorResponse(400, "Missing required parameters"), <<>>)
        ELSE IF ~isValidChartType(requestedChartType)
        THEN Outcome(ErrorResponse(400, "Invalid chart type"), <<>>)
        ELSE IF ~isValidAggregation(requestedAggregation)
        THEN Outcome(ErrorResponse(400, "Invalid aggregation type"), <<>>)
        ELSE IF ~(\A s \in {table, xAxis} \cup Range(yAxes) :
                      isValidIdentifier(s))
        THEN Outcome(ErrorResponse(400, "Invalid identifier format"), <<>>)
        ELSE IF Threw(stmts, failAt)
        THEN Outcome(ErrorResponse(500, "Failed to fetch chart data"),
                     Ran(stmts, failAt))
        ELSE Outcome(ChartResponse(yAxes, stmts[2]), stmts)

---------------------------------------------------------------------------
(* Column types: getColumnType, isNumericType, isTemporalType *)

S_int == <<"i","n","t">>
S_bigint == <<"b","i","g","i","n","t">>
S_decimal == <<"d","e","c","i","m","a","l">>
S_float == <<"f","l","o","a","t">>
S_double == <<"d","o","u","b","l","e">>
S_numeric == <<"n","u","m","e","r","i","c">>
S_date == <<"d","a","t","e">>
S_time == <<"t","i","m","e">>
S_year == <<"y","e","a","r">>
S_timestamp == <<"t","i","m","e","s","t","a","m","p">>
S_datetime == <<"d","a","t","e","t","i","m","e">>
S_varchar == <<"v","a","r","c","h","a","r">>
S_text == <<"t","e","x","t">>
S_tinyint == <<"t","i","n","y","i","n","t">>
S_enum == <<"e","n","u","m">>
S_point == <<"p","o","i","n","t">>

S_t == <<"t">>
S_day == <<"d","a","y">>
S_city == <<"c","i","t","y">>
S_qty == <<"q","t","y">>
S_hint == <<"h","i","n","t">>
S_price == <<"p","r","i","c","e">>

\* isNumericType(dataType): some numeric type name is a substring
isNumericType(dataType) ==
    \E type \in {S_int, S_bigint, S_decimal, S_float, S_double, S_numeric} :
        Includes(dataType, type)

\* isTemporalType(dataType): some temporal type name is a substring
isTemporalType(dataType) ==
    \E type \in {S_date, S_time, S_year, S_timestamp} :
        Includes(dataType, type)

\* INFORMATION_SCHEMA.COLUMNS of the database the model runs against:
\* table t(day date, city varchar, qty int, hint text, price decimal).
\* A column the table does not have has no row.
SchemaDataType(table, column) ==
    IF table # S_t THEN <<>>
    ELSE IF column = S_day THEN S_date
    ELSE IF column = S_city THEN S_varchar
    ELSE IF column = S_qty THEN S_int
    ELSE IF column = S_hint THEN S_text
    ELSE IF column = S_price THEN S_decimal
    ELSE <<>>

\* getColumnType(table, column): (result[0]?.DATA_TYPE || '').toLowerCase();
\* MySQL reports DATA_TYPE in lower case.
getColumnType(table, column) == SchemaDataType(table, column)

\* The statement getColumnType executes: table and column are bound.
ColumnTypeQuery(table, column) ==
    Stmt("getColumnType", "SELECT", <<>>, <<table, column>>, <<>>, <<>>)

---------------------------------------------------------------------------
(* Chart data endpoint, earlier revision with smart aggregation:           *)
(* buildChartQuery, buildAggregatedQuery and GET of unnamed/part_007       *)

MAX_DATA_POINTS == 50

S_star == <<"*">>
S_y == <<"y">>

\* `${isNumericType(t) ? `AVG(\`${yAxis}\`)` : 'COUNT(*)'} as y`
AvgOrCount(numeric, yAxis) ==
    IF numeric THEN YExpr("AVG", yAxis, S_y) ELSE YExpr("COUNT", S_star, S_y)

\* the request strings the y expression splices into the SQL text
YEmbedded(e) == IF e.col = S_star THEN <<>> ELSE <<e.col>>

\* buildChartQuery(table, xAxis, yAxis, chartType) of part_007: the pie and
\* line queries pass the column NAME yAxis to isNumericType.
LegacyChartQuery(table, xAxis, yAxis, chartType) ==
    IF chartType = S_pie
    THEN LET e == IF isNumericType(yAxis) THEN YExpr("SUM", yAxis, S_y)
                  ELSE YExpr("COUNT", S_star, S_y)
         IN  Stmt("pieQuery", "SELECT",
                  <<xAxis>> \o YEmbedded(e) \o <<table, xAxis, xAxis>>,
                  <<>>, <<e>>, <<xAxis>>)
    ELSE IF chartType = S_histogram
    THEN Stmt("histogramQuery", "SELECT",
              <<xAxis, table, xAxis, xAxis>>, <<>>, <<>>, <<>>)
    ELSE IF chartType = S_line
    THEN LET e == AvgOrCount(isNumericType(yAxis), yAxis)
         IN  Stmt("lineQuery", "SELECT",
                  <<xAxis>> \o YEmbedded(e) \o <<table, xAxis, xAxis>>,
                  <<>>, <<e>>, <<xAxis>>)
    ELSE Stmt("baseQuery", "SELECT",
              <<xAxis, yAxis, table, xAxis, yAxis, xAxis>>, <<>>,
              <<YExpr("", yAxis, S_y), YExpr("COUNT", S_star, S_count)>>,
              <<xAxis, yAxis>>)

\* `SELECT COUNT(DISTINCT x) as count FROM table`
DistinctCountQuery(table, xAxis) ==
    Stmt("countQuery", "SELECT", <<xAxis, table>>, <<>>, <<>>, <<>>)

\* The branch buildAggregatedQuery takes for count distinct x values of a
\* column of type xAxisType.
AggregatedBranch_Strict(count, xAxisType) ==
    IF count < MAX_DATA_POINTS THEN "raw"
    ELSE IF isTemporalType(xAxisType)
    THEN IF count > 365 THEN "month" ELSE "day"
    ELSE IF isNumericType(xAxisType) THEN "bins"
    ELSE "top"

AggregatedBranch(count, xAxisType) ==
    IF count <= MAX_DATA_POINTS THEN "raw"
    ELSE IF isTemporalType(xAxisType)
    THEN IF count > 365 THEN "month" ELSE "day"
    ELSE IF isNumericType(xAxisType) THEN "bins"
    ELSE "top"

\* Math.ceil(count / MAX_DATA_POINTS)
BinSize(count) == (count + MAX_DATA_POINTS - 1) \div MAX_DATA_POINTS

\* The statement buildAggregatedQuery returns (part_007 lines 170-218).
buildAggregatedQuery(table, xAxis, yAxis, chartType, xAxisType, yAxisType, count) ==
    LET branch == AggregatedBranch(count, xAxisType)
        e == AvgOrCount(isNumericType(yAxisType), yAxis)
    IN  IF branch = "raw"
        THEN LegacyChartQuery(table, xAxis, yAxis, chartType)
        ELSE IF branch \in {"day", "month"}
        THEN Stmt(branch, "SELECT",
                  <<xAxis>> \o YEmbedded(e) \o <<table>>, <<>>, <<e>>,
                  <<<<"x">>>>)
        ELSE IF branch = "bins"
        THEN Stmt(branch, "SELECT",
                  <<xAxis, xAxis>> \o YEmbedded(e) \o <<table, xAxis, xAxis>>,
                  <<>>, <<e>>, <<xAxis>>)
        ELSE Stmt(branch, "SELECT",
                  <<xAxis>> \o YEmbedded(e) \o <<table, xAxis>>,
                  <<>>, <<e>>, <<xAxis>>)

\* The statements one call of buildAggregatedQuery executes.
AggregatedLookups(table, xAxis, yAxis) ==
    <<ColumnTypeQuery(table, xAxis), ColumnTypeQuery(table, yAxis),
      DistinctCountQuery(table, xAxis)>>

RECURSIVE Flatten(_)
Flatten(ss) == IF ss = <<>> THEN <<>> ELSE Head(ss) \o Flatten(Tail(ss))

\* Sub-queries joined by ' UNION ALL ', each with `'${y}' as series`.
UnionOfSeries(name, queries, yAxes) ==
    Stmt(name, "SELECT",
         Flatten([i \in 1..Len(queries) |->
                     <<yAxes[i]>> \o queries[i].embedded]),
         <<>>,
         Flatten([i \in 1..Len(queries) |->
                     [j \in 1..Len(queries[i].ys) |->
                         WithSeries(queries[i].ys[j], yAxes[i])]]),
         Flatten([i \in 1..Len(queries) |-> queries[i].groupBy]))

\* isValidCategoricalData(values): 2 to 50 distinct values
isValidCategoricalData(uniqueValues) == uniqueValues > 1 /\ uniqueValues <= 50

\* The sub-query of the count-aggregation branch for one y-axis column.
SeriesQuery(table, xAxis, y, numeric) ==
    LET e == AvgOrCount(numeric, y)
    IN  Stmt("seriesQuery", "SELECT",
             <<xAxis>> \o YEmbedded(e) \o <<table, xAxis>>, <<>>, <<e>>,
             <<xAxis>>)

\* GET of part_007 (lines 345-510).  distinctX: the number of distinct
\* non-null values of the x-axis column in the table.
ChartLegacyGET_Handle(req, distinctX, failAt) ==
    LET table == OrElse(req.table, <<>>)
        xAxis == OrElse(req.xAxis, <<>>)
        yAxes == FilterTruthy(Split(OrElse(req.yAxis, <<>>)))
        chartType == OrElse(req.chartType, S_bar)
        yTypes == [i \in 1..Len(yAxes) |-> getColumnType(table, yAxes[i])]
        typeLookups == [i \in 1..Len(yAxes) |->
                            ColumnTypeQuery(table, yAxes[i])]
        nonNumeric == SelectSeq(yAxes,
                        LAMBDA y : ~isNumericType(getColumnType(table, y)))
        numeric == SelectSeq(yAxes,
                        LAMBDA y : isNumericType(getColumnType(table, y)))
        countStmts ==
            typeLookups \o
            <<UnionOfSeries("unionQuery",
                [i \in 1..Len(nonNumeric) |->
                    SeriesQuery(table, xAxis, nonNumeric[i], FALSE)] \o
                [i \in 1..Len(numeric) |->
                    SeriesQuery(table, xAxis, numeric[i], TRUE)],
                nonNumeric \o numeric)>>
        pieStmts ==
            typeLookups \o <<LegacyChartQuery(table, xAxis, yAxes[1], chartType)>>
        smartStmts ==
            typeLookups \o
            Flatten([i \in 1..Len(yAxes) |->
                        AggregatedLookups(table, xAxis, yAxes[i])]) \o
            <<UnionOfSeries("combinedQuery",
                [i \in 1..Len(yAxes) |->
                    buildAggregatedQuery(table, xAxis, yAxes[i], chartType,
                        getColumnType(table, xAxis), yTypes[i], distinctX)],
                yAxes)>>
        failed(stmts) ==
            Outcome(ErrorResponse(500, "Failed to fetch chart data"),
                    Ran(stmts, failAt))
    IN  IF ~Truthy(table) \/ ~Truthy(xAxis) \/ Len(yAxes) = 0
        THEN Outcome(ErrorResponse(400,
                 "Missing required parameters: table, xAxis, yAxis"), <<>>)
        ELSE IF ~(\A s \in {table, xAxis} \cup Range(yAxes) :
                      isValidIdentifier(s))
        THEN Outcome(ErrorResponse(400, "Invalid parameter format"), <<>>)
        ELSE IF chartType = S_pie /\ Len(yAxes) > 1
        THEN Outcome(ErrorResponse(400,
                 "Pie charts only support a single y-axis"), <<>>)
        ELSE IF chartType # S_pie /\ Len(nonNumeric) > 0
        THEN IF Threw(countStmts, failAt) THEN failed(countStmts)
             ELSE Outcome(DataResponse(yAxes), countStmts)
        ELSE IF chartType = S_pie
        THEN IF Threw(pieStmts, failAt) THEN failed(pieStmts)
             ELSE IF ~isValidCategoricalData(distinctX)
             THEN Outcome(ErrorResponse(400,
                    "Pie chart requires categorical data with 2-50 unique categories"),
                    pieStmts)
             ELSE Outcome(DataResponse(<<yAxes[1]>>), pieStmts)
        ELSE IF Threw(smartStmts, failAt) THEN failed(smartStmts)
        ELSE Outcome(DataResponse(yAxes), smartStmts)

---------------------------------------------------------------------------
(* Multi-series chart data GET of src/app/api/data/route.ts (454-537) *)

\* getAggregationFunction(column, type, dataType) of that handler
SeriesAggregation(column, type, dataType) ==
    IF type = S_none THEN YExpr("", column, S_y)
    ELSE IF type = S_count THEN YExpr("COUNT", S_star, S_y)
    ELSE IF ~isNumericType(dataType) THEN YExpr("COUNT", S_star, S_y)
    ELSE IF type = S_sum THEN YExpr("SUM", column, S_y)
    ELSE YExpr("AVG", column, S_y)

ChartSeriesGET_Handle(req, failAt) ==
    LET table == OrElse(req.table, <<>>)
        xAxis == OrElse(req.xAxis, <<>>)
        yAxes == FilterTruthy(Split(OrElse(req.yAxis, <<>>)))
        aggregation == OrElse(req.aggregation, S_none)
        stmts ==
            [i \in 1..Len(yAxes) |-> ColumnTypeQuery(table, yAxes[i])] \o
            <<UnionOfSeries("combinedQuery",
                [i \in 1..Len(yAxes) |->
                    LET e == SeriesAggregation(yAxes[i], aggregation,
                                 getColumnType(table, yAxes[i]))
                    IN  Stmt("seriesQuery", "SELECT",
                             <<xAxis>> \o YEmbedded(e) \o <<table, xAxis>>,
                             <<>>, <<e>>, <<xAxis>>)],
                yAxes)>>
    IN  IF ~Truthy(table) \/ ~Truthy(xAxis) \/ Len(yAxes) = 0
        THEN Outcome(ErrorResponse(400,
                 "Missing required parameters: table, xAxis, yAxis"), <<>>)
        ELSE IF Threw(stmts, failAt)
        THEN Outcome(ErrorResponse(500, "<error.message>"),
                     Ran(stmts, failAt))
        ELSE Outcome(DataResponse(yAxes), stmts)

---------------------------------------------------------------------------
(* Table data, export, columns and distinct values handlers *)

\* searchParams.get('columns')?.split(',')
ColumnList(columns) == IF columns = Null THEN Null ELSE Split(columns)

\* Data GET with sorting, src/app/api/data/route.ts (5-57).  Table, columns
\* and sortBy are bound to ?? placeholders; sortOrder is appended to the
\* SQL text.  The request carries no page and no limit: page 1, limit 50.
DataSortedGET_Handle(req, failAt) ==
    LET table == req.table
        columns == ColumnList(req.columns)
        stmts ==
            <<Stmt("countQuery", "SELECT", <<>>, <<table>>, <<>>, <<>>),
              Stmt("dataQuery", "SELECT",
                   IF Truthy(req.sortBy) THEN <<req.sortOrder>> ELSE <<>>,
                   columns \o <<table>> \o
                     (IF Truthy(req.sortBy) THEN <<req.sortBy>> ELSE <<>>) \o
                     <<<<"5","0">>, <<"0">>>>,
                   <<>>, <<>>)>>
    IN  IF ~Truthy(table) \/ columns = Null
        THEN Outcome(ErrorResponse(400, "Table and columns are required"),
                     <<>>)
        ELSE IF Threw(stmts, failAt)
        THEN Outcome(ErrorResponse(500, "Failed to fetch data"),
                     Ran(stmts, failAt))
        ELSE Outcome(DataResponse(<<>>), stmts)

\* the filters the loop of the filtered data GET collects: it stops at the
\* first index whose column or value is missing
RECURSIVE CollectFilters(_)
CollectFilters(fs) ==
    IF fs = <<>> \/ ~Truthy(Head(fs).column) \/ ~Truthy(Head(fs).value)
    THEN <<>>
    ELSE <<Head(fs)>> \o CollectFilters(Tail(fs))

\* Data GET with filters, unnamed/part_006.  The count query and the row
\* query are both started (Promise.all); failAt # 0: one of them throws.
DataFilteredGET_Handle(req, failAt) ==
    LET table == req.table
        columns == ColumnList(req.columns)
        filters == CollectFilters(req.filters)
        filterColumns == [i \in 1..Len(filters) |-> filters[i].column]
        filterValues == [i \in 1..Len(filters) |-> filters[i].value]
        stmts ==
            <<Stmt("countQuery", "SELECT", <<table>> \o filterColumns,
                   filterValues, <<>>, <<>>),
              Stmt("dataQuery", "SELECT",
                   columns \o <<table>> \o filterColumns,
                   filterValues, <<>>, <<>>)>>
    IN  IF ~Truthy(table) \/ columns = Null
        THEN Outcome(ErrorResponse(400, "Table and columns are required"),
                     <<>>)
        ELSE IF ~(\A s \in {table} \cup Range(columns) : isValidIdentifier(s))
        THEN Outcome(ErrorResponse(400,
                 "Invalid table or column name format"), <<>>)
        ELSE IF \E i \in 1..Len(filters) :
                    \/ filters[i].column \notin Range(columns)
                    \/ ~isValidIdentifier(filters[i].column)
        THEN Outcome(ErrorResponse(400, "Invalid filter column name"), <<>>)
        ELSE IF failAt # 0
        THEN Outcome(ErrorResponse(500, "Failed to fetch data"), stmts)
        ELSE Outcome(DataResponse(<<>>), stmts)

\* Export GET, src/app/api/export/route.ts
ExportGET_Handle(req, failAt) ==
    LET table == req.table
        columns == ColumnList(req.columns)
        stmts == <<Stmt("exportQuery", "SELECT", columns \o <<table>>,
                        <<>>, <<>>, <<>>)>>
    IN  IF ~Truthy(table) \/ columns = Null
        THEN Outcome(ErrorResponse(400, "Table and columns are required"),
                     <<>>)
        ELSE IF ~(\A s \in {table} \cup Range(columns) : isValidIdentifier(s))
        THEN Outcome(ErrorResponse(400,
                 "Invalid table or column name format"), <<>>)
        ELSE IF Threw(stmts, failAt)
        THEN Outcome(ErrorResponse(500, "Failed to export data"), stmts)
        ELSE Outcome(DataResponse(<<>>), stmts)

\* A tables handler that answers from an earlier response when it has one
TablesGET_Handle_Cached(failAt) ==
    LET stmts == <<Stmt("showTables", "SHOW", <<>>, <<>>, <<>>, <<>>)>>
    IN  IF earlier.handler = "tables"
        THEN Outcome(earlier.response, <<>>)
        ELSE IF Threw(stmts, failAt)
        THEN Outcome(ErrorResponse(500, "Failed to fetch tables"), stmts)
        ELSE Outcome(JsonResponse([kind |-> "tables"]), stmts)

\* Tables GET, chart-data/route.ts 436-453: SHOW TABLES
TablesGET_Handle(failAt) ==
    LET stmts == <<Stmt("showTables", "SHOW", <<>>, <<>>, <<>>, <<>>)>>
    IN  IF Threw(stmts, failAt)
        THEN Outcome(ErrorResponse(500, "Failed to fetch tables"), stmts)
        ELSE Outcome(JsonResponse([kind |-> "tables"]), stmts)

\* Columns GET, unnamed/part_009: SHOW COLUMNS FROM ?? with table bound
ColumnsGET_Handle(req, failAt) ==
    LET table == req.table
        stmts == <<Stmt("showColumns", "SHOW", <<>>, <<table>>, <<>>, <<>>)>>
    IN  IF ~Truthy(table)
        THEN Outcome(ErrorResponse(400, "Table name is required"), <<>>)
        ELSE IF Threw(stmts, failAt)
        THEN Outcome(ErrorResponse(500, "Failed to fetch columns"), stmts)
        ELSE Outcome(DataResponse(<<>>), stmts)

\* distinct_count / total_count > 0.95; 0 / 0 is NaN, which is not > 0.95
IsIdLike_AtLeast(total_count, distinct_count) ==
    total_count > 0 /\ distinct_count * 100 >= 95 * total_count

IsIdLike(total_count, distinct_count) ==
    total_count > 0 /\ distinct_count * 100 > 95 * total_count

\* The body of the success response (lines 58-62 and 87-91): the keys of
\* the JSON object, isIdColumn, and total (read only where it is a key).
DistinctValuesBody(counts) ==
    IF IsIdLike(counts.total_count, counts.distinct_count)
    THEN [kind |-> "distinct-values", isIdColumn |-> TRUE,
          keys |-> {"isIdColumn", "uniquenessRatio", "message"},
          total |-> 0]
    ELSE [kind |-> "distinct-values", isIdColumn |-> FALSE,
          keys |-> {"isIdColumn", "values", "total"},
          total |-> counts.distinct_count]

\* Distinct values GET, unnamed/part_008.  counts: the row the count query
\* returns for the table.
DistinctValuesGET_Handle(req, counts, failAt) ==
    LET table == req.table
        column == req.column
        countStmt == Stmt("countQuery", "SELECT", <<column, table>>, <<>>,
                          <<>>, <<>>)
        distinctStmt == Stmt("distinctQuery", "SELECT",
                             <<column, table, column, column>>, <<>>, <<>>,
                             <<column>>)
        stmts == IF IsIdLike(counts.total_count, counts.distinct_count)
                 THEN <<countStmt>> ELSE <<countStmt, distinctStmt>>
    IN  IF ~Truthy(table) \/ ~Truthy(column)
        THEN Outcome(ErrorResponse(400, "Table and column are required"),
                     <<>>)
        ELSE IF ~isValidIdentifier(table) \/ ~isValidIdentifier(column)
        THEN Outcome(ErrorResponse(400,
                 "Invalid table or column name format"), <<>>)
        ELSE IF Threw(stmts, failAt)
        THEN Outcome(ErrorResponse(500, "Failed to fetch distinct values"),
                     Ran(stmts, failAt))
        ELSE Outcome(JsonResponse(DistinctValuesBody(counts)), stmts)

---------------------------------------------------------------------------
(* The bucketed queries of buildAggregatedQuery, evaluated on a table *)

\* A table is held as one entry per distinct x value: the value, the number
\* of rows that have it and the sum of their y values (the bucketed queries
\* read nothing else of a row).  A value is a date [year, month, day, hour],
\* a number [number] or a category [category].

\* DATE_FORMAT(x, '%Y-%m-%d') and DATE_FORMAT(x, '%Y-%m')
DateFormat(branch, d) ==
    IF branch = "month" THEN [year |-> d.year, month |-> d.month]
    ELSE [year |-> d.year, month |-> d.month, day |-> d.day]

\* FLOOR(x / binSize) and the label CONCAT(lo, ' - ', hi)
BinOf(x, binSize) == x.number \div binSize

BinLabel(bin, binSize) ==
    [lo |-> bin * binSize, hi |-> bin * binSize + binSize]

\* the x column of the result row an entry falls into
BucketOf(branch, count, x) ==
    IF branch \in {"day", "month"} THEN DateFormat(branch, x)
    ELSE IF branch = "bins"
    THEN BinLabel(BinOf(x, BinSize(count)), BinSize(count))
    ELSE x

\* the sum of a field over the entries is
RECURSIVE SumOver(_, _, _)
SumOver(table, field, is) ==
    IF is = {} THEN 0
    ELSE SumOver(table, field, is \ {CHOOSE k \in is : TRUE})
         + table[CHOOSE k \in is : TRUE][field]

\* One result row of a GROUP BY: the bucket, the number of rows in it and
\* the sum of their y (y is AVG(y) = ysum / rows or COUNT(*) = rows).
GroupOf(table, bucket, members) ==
    [x |-> bucket, rows |-> SumOver(table, "rows", members),
     ysum |-> SumOver(table, "ysum", members)]

GroupRow(table, branch, count, bucket) ==
    GroupOf(table, bucket,
            {i \in DOMAIN table :
                BucketOf(branch, count, table[i].x) = bucket})

\* SELECT bucket, aggregate FROM table GROUP BY bucket
GroupBy(table, branch, count) ==
    {GroupRow(table, branch, count, b) :
        b \in {BucketOf(branch, count, table[i].x) : i \in DOMAIN table}}

\* LIMIT of the top categories query
TopLimit_OneLess == MAX_DATA_POINTS - 1

TopLimit == MAX_DATA_POINTS

\* ORDER BY group_size DESC LIMIT 50: the sets of groups the DBMS may keep
\* (it breaks ties between groups of equal size as it likes).
TopGroups(groups) ==
    IF Cardinality(groups) <= TopLimit THEN {groups}
    ELSE LET larger(g) == {h \in groups : h.rows > g.rows}
             cut == CHOOSE g \in groups :
                        /\ Cardinality(larger(g)) < TopLimit
                        /\ Cardinality(larger(g)) +
                           Cardinality({h \in groups : h.rows = g.rows})
                              >= TopLimit
             above == larger(cut)
             ties == {h \in groups : h.rows = cut.rows}
         IN  {above \cup k : k \in {t \in SUBSET ties :
                    Cardinality(t) = TopLimit - Cardinality(above)}}

\* COUNT(DISTINCT x)
DistinctCount(table) == Cardinality({table[i].x : i \in DOMAIN table})

\* The result sets the query of the given branch may return.
BucketedResults(table, branch, count) ==
    IF branch = "top" THEN TopGroups(GroupBy(table, branch, count))
    ELSE {GroupBy(table, branch, count)}

---------------------------------------------------------------------------
(* transformPieChartData of unnamed/part_007 (lines 300-343) *)

\* A JavaScript value of a database row is [type, num, str] with type
\* "null", "number" (num) or "string" (str); numbers are integers here.
JsNull == [type |-> "null", num |-> 0, str |-> <<>>]
JsNumber(n) == [type |-> "number", num |-> n, str |-> <<>>]
JsString(s) == [type |-> "string", num |-> 0, str |-> s]

S_Unknown == <<"U","n","k","n","o","w","n">>
S_Other == <<"O","t","h","e","r">>

Digits == <<"0","1","2","3","4","5","6","7","8","9">>

\* Number.prototype.toString of an integer
RECURSIVE NaturalToString(_)
NaturalToString(n) ==
    IF n < 10 THEN <<Digits[n + 1]>>
    ELSE Append(NaturalToString(n \div 10), Digits[(n % 10) + 1])

NumberToString(n) ==
    IF n < 0 THEN <<"-">> \o NaturalToString(0 - n) ELSE NaturalToString(n)

DigitValue(c) == CHOOSE d \in 0..9 : Digits[d + 1] = c

RECURSIVE DigitsToNatural(_)
DigitsToNatural(s) ==
    IF s = <<>> THEN 0
    ELSE 10 * DigitsToNatural(SubSeq(s, 1, Len(s) - 1)) + DigitValue(s[Len(s)])

AllDigits(s) == Len(s) >= 1 /\ \A i \in 1..Len(s) : s[i] \in DigitChars

\* Number(v) of null, a number, or a string: '' is 0, decimal integer text
\* is its value, other text is NaN.
ToNumber(v) ==
    IF v.type = "null" THEN [nan |-> FALSE, num |-> 0]
    ELSE IF v.type = "number" THEN [nan |-> FALSE, num |-> v.num]
    ELSE IF v.str = <<>> THEN [nan |-> FALSE, num |-> 0]
    ELSE IF AllDigits(v.str)
    THEN [nan |-> FALSE, num |-> DigitsToNatural(v.str)]
    ELSE IF v.str[1] = "-" /\ AllDigits(Tail(v.str))
    THEN [nan |-> FALSE, num |-> 0 - DigitsToNatural(Tail(v.str))]
    ELSE [nan |-> TRUE, num |-> 0]

\* Number(curr.y) || 0
PieNumber(y) == IF ToNumber(y).nan THEN 0 ELSE ToNumber(y).num

\* curr.x?.toString() || 'Unknown'
PieKey(x) ==
    IF x.type = "null" THEN S_Unknown
    ELSE LET text == IF x.type = "number" THEN NumberToString(x.num)
                     ELSE x.str
         IN  IF text = <<>> THEN S_Unknown ELSE text

\* the keys of the accumulator in the order they were first written
RECURSIVE InsertionOrder(_, _)
InsertionOrder(data, n) ==
    IF n = 0 THEN <<>>
    ELSE LET rest == InsertionOrder(data, n - 1)
         IN  IF \E j \in 1..(n - 1) : PieKey(data[j].x) = PieKey(data[n].x)
             THEN rest
             ELSE Append(rest, PieKey(data[n].x))

\* acc[key] after the reduce over the first n rows
RECURSIVE Aggregated(_, _, _)
Aggregated(data, key, n) ==
    IF n = 0 THEN 0
    ELSE Aggregated(data, key, n - 1) +
         (IF PieKey(data[n].x) = key THEN PieNumber(data[n].y) ELSE 0)

\* Array.prototype.sort is stable: ascending in rank, equal ranks keep
\* their order.
InsertAt(sorted, e, k) ==
    SubSeq(sorted, 1, k) \o <<e>> \o SubSeq(sorted, k + 1, Len(sorted))

InsertSorted(sorted, e) ==
    InsertAt(sorted, e,
        Cardinality({i \in 1..Len(sorted) : sorted[i].rank <= e.rank}))

RECURSIVE StableSort(_)
StableSort(s) ==
    IF s = <<>> THEN <<>>
    ELSE InsertSorted(StableSort(SubSeq(s, 1, Len(s) - 1)), s[Len(s)])

\* an array-index key: canonical decimal text of a natural number
IsIndexKey(key) == AllDigits(key) /\ (Len(key) = 1 \/ key[1] # "0")

RECURSIVE SelectKeys(_, _)
SelectKeys(keys, index) ==
    IF keys = <<>> THEN <<>>
    ELSE IF IsIndexKey(Head(keys)) = index
    THEN <<Head(keys)>> \o SelectKeys(Tail(keys), index)
    ELSE SelectKeys(Tail(keys), index)

Labels(entries) == [i \in 1..Len(entries) |-> entries[i].label]

\* index keys in ascending numeric order
IndexKeysInOrder(indexKeys) ==
    Labels(StableSort([i \in 1..Len(indexKeys) |->
               [label |-> indexKeys[i],
                rank |-> DigitsToNatural(indexKeys[i])]]))

\* The key order of an object: index keys in ascending numeric order, then
\* the other keys in insertion order.
KeyOrder(keys) ==
    IndexKeysInOrder(SelectKeys(keys, TRUE)) \o SelectKeys(keys, FALSE)

EntriesOf(data, keys) ==
    [i \in 1..Len(keys) |->
        [label |-> keys[i], value |-> Aggregated(data, keys[i], Len(data))]]

\* Object.entries(aggregated)
ObjectEntries(data) ==
    EntriesOf(data, KeyOrder(InsertionOrder(data, Len(data))))

WithoutRank(entries) ==
    [i \in 1..Len(entries) |->
        [label |-> entries[i].label, value |-> entries[i].value]]

DescendingByValue(entries) ==
    WithoutRank(StableSort([i \in 1..Len(entries) |->
        [label |-> entries[i].label, value |-> entries[i].value,
         rank |-> 0 - entries[i].value]]))

\* Object.entries(aggregated).sort(([, a], [, b]) => b - a)
SortedEntries(data) == DescendingByValue(ObjectEntries(data))

MAX_SLICES == 10

\* the number of categories kept beside 'Other': MAX_SLICES - 1
KeptSlices_All == MAX_SLICES

KeptSlices == MAX_SLICES - 1

\* reduce((sum, { value }) => sum + value, 0) over the first n entries
RECURSIVE SumFirst(_, _)
SumFirst(entries, n) ==
    IF n = 0 THEN 0 ELSE SumFirst(entries, n - 1) + entries[n].value

SumValues(entries) == SumFirst(entries, Len(entries))

\* Array.prototype.slice(from)
SliceFrom(s, from) == SubSeq(s, from + 1, Len(s))

\* 3. group the small categories into 'Other' (lines 313-334)
PieResult(sortedEntries) ==
    IF Len(sortedEntries) > MAX_SLICES
    THEN Append(SubSeq(sortedEntries, 1, KeptSlices),
                [label |-> S_Other,
                 value |-> SumValues(SliceFrom(sortedEntries, KeptSlices))])
    ELSE sortedEntries

\* (item.value / total) * 100 as a fraction; a division by zero gives NaN
\* for 0 / 0 and an infinity otherwise.
Percentage(value, total) ==
    IF total # 0 THEN [num |-> value * 100, den |-> total, special |-> ""]
    ELSE [num |-> 0, den |-> 0,
          special |-> IF value = 0 THEN "NaN"
                      ELSE IF value > 0 THEN "Infinity" ELSE "-Infinity"]

\* 4. total and percentages (lines 336-342)
WithPercentages(result, total) ==
    [i \in 1..Len(result) |->
        [label |-> result[i].label, value |-> result[i].value,
         percentage |-> Percentage(result[i].value, total)]]

PieSlices(result) == WithPercentages(result, SumValues(result))

transformPieChartData(data) == PieSlices(PieResult(SortedEntries(data)))

---------------------------------------------------------------------------
(* Request parameters the model explores *)

\* The backtick character (it closes a quoted identifier in MySQL).
BACKTICK == "<backtick>"

\* table names: absent, empty, a table, a name closing its own backtick
\* quote, a name with a trailing line break
TableSamples ==
    {Null, <<>>, S_t, <<"t", BACKTICK, ";">>, <<"t","\n">>}

\* column names: absent, columns of t, a name with a quote and a blank
ColumnSamples ==
    {Null, S_day, S_city, S_qty, <<"x","'"," ","-">>}

\* yAxis lists: absent, one column, two columns, an empty element, a
\* column whose name holds a numeric type name, an element with a blank
YAxisSamples ==
    {Null, S_qty, S_hint,
     S_qty \o <<",">> \o S_hint,
     S_qty \o <<",">>,
     <<"q"," ","y">>,
     S_qty \o <<",",")",";">>}

ChartTypeSamples ==
    {Null, S_bar, S_line, S_pie, S_histogram,
     <<"s","c","a","t","t","e","r">>}

AggregationSamples ==
    {Null, S_none, S_sum, S_avg, S_count, <<"m","a","x">>}

S_asc == <<"a","s","c">>
S_desc == <<"d","e","s","c">>

\* columns lists: absent, empty, one column, two columns, a column name
\* that closes its backtick quote
ColumnsSamples ==
    {Null, <<>>, S_city, S_city \o <<",">> \o S_qty,
     S_city \o <<",">> \o <<"q", BACKTICK, ";">>}

SortBySamples == {Null, S_city, <<"x","'"," ","-">>}

SortOrderSamples == {Null, S_asc, S_desc, S_asc \o <<";"," ","-","-">>}

Filter(column, value) == [column |-> column, value |-> value]

\* filter lists: none, one on a requested column (with a value holding a
\* quote), two, one on a column that was not requested, one on an
\* ill-formed column, one whose value is missing
FilterSamples ==
    {<<>>,
     <<Filter(S_city, <<"x","'",";">>)>>,
     <<Filter(S_city, <<"x">>), Filter(S_qty, <<"1"," ","O","R"," ","1">>)>>,
     <<Filter(S_hint, <<"x">>)>>,
     <<Filter(<<"q", BACKTICK, ";">>, <<"x">>)>>,
     <<Filter(S_city, Null)>>}

\* The tables the database may hold: the number of rows of table t and the
\* number of distinct values of each of its columns (COUNT(*) and
\* COUNT(DISTINCT column)).
DbSamples ==
    {[total_count |-> 20, distinct_count |-> 19],
     [total_count |-> 100, distinct_count |-> 96],
     [total_count |-> 400, distinct_count |-> 366]}

EmptyDb == [total_count |-> 0, distinct_count |-> 0]

---------------------------------------------------------------------------
(* Actions *)

NoAgg == [phase |-> "unused"]
NoPie == [phase |-> "unused"]
NoFmt == [phase |-> "unused"]
NoLine == [phase |-> "unused"]
NoCalls == <<>>
NoExchange == [handler |-> "none"]
NoWalk == [phase |-> "unused"]
NoRace == [phase |-> "unused"]
NoGrid == [phase |-> "unused"]
NoForm == [phase |-> "unused"]
NoStore == [phase |-> "unused"]

\* nothing runs in the browser
ClientIdle ==
    /\ walk = NoWalk
    /\ race = NoRace
    /\ grid = NoGrid
    /\ form = NoForm
    /\ store = NoStore

\* new LRUCache({ max: 100, ttl: ... }): no entries
EmptyCache == {}

\* The executeQuery calls of a request that may throw: one of the calls
\* the handler makes when none throws (0: none throws).
FailPoints(unfailed) == 0..Len(unfailed.executed)

\* connection.execute(query, params) on the database: a SELECT or SHOW
\* statement returns rows and leaves the contents as they are; a statement
\* of any other kind writes.
execute(stmt, contents) ==
    IF stmt.kind \in {"SELECT", "SHOW"} THEN contents
    ELSE [contents EXCEPT !.total_count = @ + 1]

RECURSIVE executeEach(_, _)
executeEach(stmts, contents) ==
    IF stmts = <<>> THEN contents
    ELSE executeEach(Tail(stmts), execute(Head(stmts), contents))

\* A handler answers the request in flight.
Answer(name, req, out) ==
    /\ pc = "idle"
    /\ pc' = "done"
    /\ handler' = name
    /\ request' = req
    /\ response' = out.response
    /\ executed' = out.executed
    /\ db' = executeEach(out.executed, db)
    /\ UNCHANGED <<agg, pie, fmt, line, calls, connections, cache, earlier>>
    /\ UNCHANGED ClientVars

ChartDataGET ==
    /\ pc = "idle"
    /\ \E table \in TableSamples, xAxis \in ColumnSamples,
          yAxis \in YAxisSamples, chartType \in ChartTypeSamples,
          aggregation \in AggregationSamples :
           LET req == [NoRequest EXCEPT !.table = table, !.xAxis = xAxis,
                           !.yAxis = yAxis, !.chartType = chartType,
                           !.aggregation = aggregation]
           IN  \E failAt \in FailPoints(ChartDataGET_Handle(req, 0)) :
                   Answer("chart-data", req, ChartDataGET_Handle(req, failAt))

ChartLegacyGET ==
    /\ pc = "idle"
    /\ \E table \in TableSamples, xAxis \in ColumnSamples,
          yAxis \in YAxisSamples, chartType \in ChartTypeSamples :
           LET req == [NoRequest EXCEPT !.table = table, !.xAxis = xAxis,
                           !.yAxis = yAxis, !.chartType = chartType]
           IN  \E failAt \in FailPoints(
                       ChartLegacyGET_Handle(req, db.distinct_count, 0)) :
                   Answer("chart-data-legacy", req,
                       ChartLegacyGET_Handle(req, db.distinct_count, failAt))

ChartSeriesGET ==
    /\ pc = "idle"
    /\ \E table \in TableSamples, xAxis \in ColumnSamples,
          yAxis \in YAxisSamples, aggregation \in AggregationSamples :
           LET req == [NoRequest EXCEPT !.table = table, !.xAxis = xAxis,
                           !.yAxis = yAxis, !.aggregation = aggregation]
           IN  \E failAt \in FailPoints(ChartSeriesGET_Handle(req, 0)) :
                   Answer("chart-series", req, ChartSeriesGET_Handle(req, failAt))

DataSortedGET ==
    /\ pc = "idle"
    /\ \E table \in TableSamples, columns \in ColumnsSamples,
          sortBy \in SortBySamples, sortOrder \in SortOrderSamples :
           LET req == [NoRequest EXCEPT !.table = table, !.columns = columns,
                           !.sortBy = sortBy, !.sortOrder = sortOrder]
           IN  \E failAt \in FailPoints(DataSortedGET_Handle(req, 0)) :
                   Answer("data-sorted", req, DataSortedGET_Handle(req, failAt))

DataFilteredGET ==
    /\ pc = "idle"
    /\ \E table \in TableSamples, columns \in ColumnsSamples,
          filters \in FilterSamples :
           LET req == [NoRequest EXCEPT !.table = table, !.columns = columns,
                           !.filters = filters]
           IN  \E failAt \in FailPoints(DataFilteredGET_Handle(req, 0)) :
                   Answer("data-filtered", req,
                          DataFilteredGET_Handle(req, failAt))

ExportGET ==
    /\ pc = "idle"
    /\ \E table \in TableSamples, columns \in ColumnsSamples :
           LET req == [NoRequest EXCEPT !.table = table, !.columns = columns]
           IN  \E failAt \in FailPoints(ExportGET_Handle(req, 0)) :
                   Answer("export", req, ExportGET_Handle(req, failAt))

TablesGET ==
    /\ pc = "idle"
    /\ \E failAt \in FailPoints(TablesGET_Handle(0)) :
           Answer("tables", NoRequest, TablesGET_Handle(failAt))

ColumnsGET ==
    /\ pc = "idle"
    /\ \E table \in TableSamples :
           LET req == [NoRequest EXCEPT !.table = table]
           IN  \E failAt \in FailPoints(ColumnsGET_Handle(req, 0)) :
                   Answer("columns", req, ColumnsGET_Handle(req, failAt))

DistinctValuesGET ==
    /\ pc = "idle"
    /\ \E table \in TableSamples, column \in ColumnSamples :
           LET req == [NoRequest EXCEPT !.table = table, !.column = column]
           IN  \E failAt \in FailPoints(DistinctValuesGET_Handle(req, db, 0)) :
                   Answer("distinct-values", req,
                          DistinctValuesGET_Handle(req, db, failAt))

\* The response has left; a handler keeps nothing between requests.
Reply ==
    /\ pc = "done"
    /\ pc' = "idle"
    /\ handler' = "none"
    /\ request' = NoRequest
    /\ response' = NoResponse
    /\ executed' = <<>>
    /\ UNCHANGED <<agg, pie, db, fmt, line, calls, connections, cache, earlier>>
    /\ UNCHANGED ClientVars

Init ==
    /\ pc = "idle"
    /\ handler = "none"
    /\ request = NoRequest
    /\ response = NoResponse
    /\ executed = <<>>
    /\ agg = NoAgg
    /\ pie = NoPie
    /\ db \in DbSamples
    /\ fmt = NoFmt
    /\ line = NoLine
    /\ calls = NoCalls
    /\ connections = {}
    /\ cache = EmptyCache
    /\ earlier = NoExchange
    /\ ClientIdle

Next ==
    \/ ChartDataGET
    \/ ChartLegacyGET
    \/ ChartSeriesGET
    \/ DataSortedGET
    \/ DataFilteredGET
    \/ ExportGET
    \/ TablesGET
    \/ ColumnsGET
    \/ DistinctValuesGET
    \/ Reply

Spec == Init /\ [][Next]_vars

---------------------------------------------------------------------------
(* buildAggregatedQuery on tables of every size and x-axis type *)

Margin == 1
MaxSpread == 3

S_x == <<"x">>

\* DATA_TYPE of the x-axis and of the y-axis column
XTypeSamples ==
    {S_int, S_tinyint, S_decimal, S_double, S_date, S_datetime, S_timestamp,
     S_varchar, S_text, S_enum, S_point}

YTypeSamples == {S_int, S_varchar}

\* numbers of distinct x values: small, and around both thresholds
SizeSamples ==
    {2} \cup ((MAX_DATA_POINTS - Margin)..(MAX_DATA_POINTS + Margin))
        \cup ((365 - Margin)..(365 + Margin))

\* what MySQL stores in a column of the type
XFamily(xType) ==
    IF xType \in {S_date, S_datetime, S_timestamp} THEN "temporal"
    ELSE IF xType \in {S_int, S_tinyint, S_bigint, S_decimal, S_float, S_double}
    THEN "numeric"
    ELSE IF xType \in {S_varchar, S_text, S_enum} THEN "categorical"
    ELSE "other"

\* The i-th distinct x value of a sample table.  Temporal values are an
\* hour, a day or a month apart (spread 1, 2, 3 and more), numeric values
\* are spread apart, the others are category i.
SampleX(family, i, spread) ==
    IF family = "temporal"
    THEN LET hours == i * (IF spread = 1 THEN 1
                           ELSE IF spread = 2 THEN 24 ELSE 24 * 28)
         IN  [year |-> 2000 + hours \div (24 * 28 * 12),
              month |-> 1 + ((hours \div (24 * 28)) % 12),
              day |-> 1 + ((hours \div 24) % 28),
              hour |-> hours % 24]
    ELSE IF family = "numeric" THEN [number |-> i * spread]
    ELSE [category |-> i]

\* the number of rows with the i-th x value: `spread` categories each of
\* every size
SampleRows(family, i, spread) ==
    IF family = "temporal" \/ family = "numeric" THEN 1 + (i % spread)
    ELSE (i + spread) \div spread

SampleTable(family, n, spread) ==
    [i \in 0..(n - 1) |->
        [x |-> SampleX(family, i, spread),
         rows |-> SampleRows(family, i, spread),
         ysum |-> SampleRows(family, i, spread) * (i % 7)]]

AggInput(xAxisType, yAxisType, chartType, n, spread) ==
    [phase |-> "input", xAxisType |-> xAxisType, yAxisType |-> yAxisType,
     chartType |-> chartType,
     table |-> SampleTable(XFamily(xAxisType), n, spread),
     count |-> 0, branch |-> "none", query |-> <<>>,
     evaluated |-> FALSE, points |-> {}]

\* The bucketed query is evaluated where its functions are defined on the
\* column's values (DATE_FORMAT on dates, FLOOR(x / binSize) on numbers).
Evaluated(branch, xAxisType) ==
    \/ branch \in {"day", "month"} /\ XFamily(xAxisType) = "temporal"
    \/ branch = "bins" /\ XFamily(xAxisType) = "numeric"
    \/ branch = "top" /\ XFamily(xAxisType) \in {"categorical", "other"}

\* buildAggregatedQuery(table, xAxis, yAxis, chartType) and the execution
\* of the query it returns (GET, part_007 lines 459-469).
BuildAggregated ==
    /\ agg.phase = "input"
    /\ LET count == DistinctCount(agg.table)
           branch == AggregatedBranch(count, agg.xAxisType)
           evaluated == Evaluated(branch, agg.xAxisType)
       IN  \E points \in (IF evaluated
                          THEN BucketedResults(agg.table, branch, count)
                          ELSE {{}}) :
               agg' = [agg EXCEPT !.phase = "built", !.count = count,
                          !.branch = branch,
                          !.query = buildAggregatedQuery(S_t, S_x, S_y,
                                        agg.chartType, agg.xAxisType,
                                        agg.yAxisType, count),
                          !.evaluated = evaluated, !.points = points]
    /\ UNCHANGED <<pc, handler, request, response, executed, pie, db>>
    /\ UNCHANGED <<fmt, line, calls, connections, cache, earlier>>
    /\ UNCHANGED ClientVars

InitAgg ==
    /\ pc = "idle"
    /\ handler = "none"
    /\ request = NoRequest
    /\ response = NoResponse
    /\ executed = <<>>
    /\ pie = NoPie
    /\ db = EmptyDb
    /\ fmt = NoFmt
    /\ line = NoLine
    /\ calls = NoCalls
    /\ connections = {}
    /\ cache = EmptyCache
    /\ earlier = NoExchange
    /\ ClientIdle
    /\ agg \in {AggInput(xAxisType, yAxisType, chartType, n, spread) :
                    xAxisType \in XTypeSamples, yAxisType \in YTypeSamples,
                    chartType \in {S_bar, S_pie}, n \in SizeSamples,
                    spread \in 1..MaxSpread}

NextAgg == BuildAggregated

SpecAgg == InitAgg /\ [][NextAgg]_vars

---------------------------------------------------------------------------
(* transformPieChartData on the rows a pie query may return *)

MaxPieRows == 14

S_abc == <<"a","b","c">>

\* the x of the i-th row: distinct names; distinct numbers in descending
\* order; or a mix with null, '', 'Unknown', 'Other', a number and its text
PieX(xs, i) ==
    IF xs = "names" THEN JsString(<<"c">> \o NumberToString(i))
    ELSE IF xs = "numbers" THEN JsNumber(20 - i)
    ELSE IF i = 1 THEN JsNull
    ELSE IF i = 2 THEN JsString(<<>>)
    ELSE IF i = 3 THEN JsString(S_Unknown)
    ELSE IF i = 4 THEN JsString(S_Other)
    ELSE IF i = 5 THEN JsNumber(1)
    ELSE IF i = 6 THEN JsString(<<"1">>)
    ELSE IF i % 2 = 0 THEN JsNumber(i)
    ELSE JsString(<<"c">> \o NumberToString(i))

\* the y of the i-th row: all equal; ascending; descending; of both signs;
\* or a mix of null, numeric text, other text and numbers
PieY(ys, i) ==
    IF ys = "equal" THEN JsNumber(5)
    ELSE IF ys = "ascending" THEN JsNumber(i)
    ELSE IF ys = "descending" THEN JsNumber(20 - i)
    ELSE IF ys = "signed" THEN JsNumber(IF i % 2 = 0 THEN 0 - i ELSE i)
    ELSE IF i % 4 = 0 THEN JsNull
    ELSE IF i % 4 = 1 THEN JsString(NumberToString(i))
    ELSE IF i % 4 = 2 THEN JsString(S_abc)
    ELSE JsNumber(i \div 4)

PieRows(xs, ys, m) == [i \in 1..m |-> [x |-> PieX(xs, i), y |-> PieY(ys, i)]]

\* const transformedData = transformPieChartData(rawData) (GET, line 458)
TransformPie ==
    /\ pie.phase = "input"
    /\ pie' = [pie EXCEPT !.phase = "done",
                  !.result = transformPieChartData(pie.data)]
    /\ UNCHANGED <<pc, handler, request, response, executed, agg, db>>
    /\ UNCHANGED <<fmt, line, calls, connections, cache, earlier>>
    /\ UNCHANGED ClientVars

InitPie ==
    /\ pc = "idle"
    /\ handler = "none"
    /\ request = NoRequest
    /\ response = NoResponse
    /\ executed = <<>>
    /\ agg = NoAgg
    /\ db = EmptyDb
    /\ fmt = NoFmt
    /\ line = NoLine
    /\ calls = NoCalls
    /\ connections = {}
    /\ cache = EmptyCache
    /\ earlier = NoExchange
    /\ ClientIdle
    /\ pie \in {[phase |-> "input", data |-> PieRows(xs, ys, m),
                  result |-> <<>>] :
                    xs \in {"names", "numbers", "mixed"},
                    ys \in {"equal", "ascending", "descending", "signed",
                             "loose"},
                    m \in 0..MaxPieRows}

NextPie == TransformPie

SpecPie == InitPie /\ [][NextPie]_vars

---------------------------------------------------------------------------
(* The distinct values endpoint on tables of every size *)

MaxRows == 20

\* a table of up to MaxRows rows whose column has any number of distinct
\* values (none when every value is NULL)
InitDistinct ==
    /\ pc = "idle"
    /\ handler = "none"
    /\ request = NoRequest
    /\ response = NoResponse
    /\ executed = <<>>
    /\ agg = NoAgg
    /\ pie = NoPie
    /\ db \in {[total_count |-> t, distinct_count |-> d] :
                  t \in 0..MaxRows, d \in 0..MaxRows}
    /\ db.distinct_count <= db.total_count
    /\ fmt = NoFmt
    /\ line = NoLine
    /\ calls = NoCalls
    /\ connections = {}
    /\ cache = EmptyCache
    /\ earlier = NoExchange
    /\ ClientIdle

NextDistinct ==
    \/ DistinctValuesGET
    \/ Reply

SpecDistinct == InitDistinct /\ [][NextDistinct]_vars

---------------------------------------------------------------------------
(* Properties of the chart data endpoint *)

\* An identifier as the claims describe it: non-empty, only [a-zA-Z0-9_].
WellFormedIdent(s) ==
    /\ s # Null
    /\ s # <<>>
    /\ \A i \in 1..Len(s) :
          s[i] \in LowerCase \cup UpperCase \cup DigitChars \cup {"_"}

\* table, xAxis and the comma-separated elements of yAxis of a request
RequestIdents(req) ==
    {req.table, req.xAxis} \cup
    (IF req.yAxis = Null THEN {Null} ELSE Range(Split(req.yAxis)))

AllIdentsWellFormed(req) == \A s \in RequestIdents(req) : WellFormedIdent(s)

ChartParamsPresent(req) ==
    Truthy(req.table) /\ Truthy(req.xAxis) /\ Truthy(req.yAxis)

RequestedChartType(req) == OrElse(req.chartType, <<>>)

RequestedAggregation(req) == OrElse(req.aggregation, S_none)

ChartTypeKnown(req) ==
    RequestedChartType(req) \in {S_bar, S_line, S_pie, S_histogram}

AggregationKnown(req) ==
    RequestedAggregation(req) \in {S_none, S_sum, S_avg, S_count}

\* C1 as stated: the chart data GET executes no SQL unless table, xAxis and
\* every element of yAxis are well-formed identifiers, and every request
\* with another identifier is answered 400 'Invalid identifier format' with
\* no call of executeQuery.
C1_AsStated ==
    handler = "chart-data" =>
        /\ executed # <<>> => AllIdentsWellFormed(request)
        /\ ~AllIdentsWellFormed(request) =>
              /\ response.status = 400
              /\ response.error = "Invalid identifier format"
              /\ executed = <<>>

\* C1 amended: the chart data GET executes no SQL unless table, xAxis and
\* every element of yAxis are well-formed identifiers; every request with
\* another identifier is answered 400 with no call of executeQuery, and the
\* error is 'Invalid identifier format' when the three parameters are
\* present and the chart type and the aggregation are valid (the earlier
\* checks answer 'Missing required parameters', 'Invalid chart type' or
\* 'Invalid aggregation type' otherwise).
C1_IdentifiersChecked ==
    handler = "chart-data" =>
        /\ executed # <<>> => AllIdentsWellFormed(request)
        /\ ~AllIdentsWellFormed(request) =>
              /\ response.status = 400
              /\ executed = <<>>
              /\ (ChartParamsPresent(request) /\ ChartTypeKnown(request)
                    /\ AggregationKnown(request))
                  => response.error = "Invalid identifier format"

\* A request whose yAxis list has an empty element, otherwise valid, is
\* refused as an invalid identifier.
C1_Witness ==
    /\ handler = "chart-data"
    /\ request.table = S_t
    /\ request.yAxis = S_qty \o <<",">>
    /\ response.status = 400
    /\ response.error = "Invalid identifier format"
    /\ executed = <<>>

\* C8 as stated: a chart type other than bar, line, pie, histogram is
\* answered 400 'Invalid chart type' and no query is executed; these four
\* are accepted.
C8_AsStated ==
    handler = "chart-data" =>
        /\ ~ChartTypeKnown(request) =>
              /\ response.status = 400
              /\ response.error = "Invalid chart type"
              /\ executed = <<>>
        /\ ChartTypeKnown(request) => response.error # "Invalid chart type"

\* C8 amended: a chart type other than bar, line, pie, histogram is
\* answered 400 and no query is executed; the error is 'Invalid chart type'
\* when table, xAxis and yAxis are present ('Missing required parameters'
\* otherwise); the four chart types are never refused as invalid.
C8_ChartTypesChecked ==
    handler = "chart-data" =>
        /\ ~ChartTypeKnown(request) =>
              /\ response.status = 400
              /\ executed = <<>>
              /\ ChartParamsPresent(request)
                    => response.error = "Invalid chart type"
        /\ ChartTypeKnown(request) => response.error # "Invalid chart type"

\* An unknown chart type with every other parameter valid is refused.
C8_Witness ==
    /\ handler = "chart-data"
    /\ request.chartType = <<"s","c","a","t","t","e","r">>
    /\ AllIdentsWellFormed(request)
    /\ response.status = 400
    /\ response.error = "Invalid chart type"
    /\ executed = <<>>

---------------------------------------------------------------------------
(* Properties of the SQL the handlers build *)

\* C2 as stated: in every GET handler each request string that is part of
\* the SQL text is a well-formed identifier, and the sort order and the
\* filter values reach the database only as bound parameters.
C2_AsStated ==
    \A i \in 1..Len(executed) :
        /\ \A s \in Range(executed[i].embedded) :
              s # Null => WellFormedIdent(s)
        /\ request.sortOrder # Null
              => request.sortOrder \notin Range(executed[i].embedded)
        /\ \A k \in 1..Len(request.filters) :
              request.filters[k].value \notin Range(executed[i].embedded)

\* the y-axis columns a chart request names
RequestYAxes(req) == FilterTruthy(Split(OrElse(req.yAxis, <<>>)))

\* the y-axis column a y expression of a chart statement measures
MeasuredColumn(e) ==
    IF e.series # <<>> THEN e.series ELSE RequestYAxes(request)[1]

\* C6 as stated: in the pie query of buildChartQuery and in the
\* multi-series query of the GET handler, SUM or AVG is applied only to a
\* y-axis column whose DATA_TYPE is numeric, and the aggregate of a column
\* of another type is COUNT(*).
C6_AsStated ==
    handler \in {"chart-data-legacy", "chart-series"} =>
        \A i \in 1..Len(executed) : \A j \in 1..Len(executed[i].ys) :
            LET e == executed[i].ys[j]
                numeric == isNumericType(
                    SchemaDataType(request.table, MeasuredColumn(e)))
            IN  IsAggregateCall(e) =>
                    /\ e.fn \in {"SUM", "AVG"} => numeric
                    /\ ~numeric => e.fn = "COUNT" /\ e.col = S_star

\* the SQL function an aggregation value names
SqlFunction(aggregation) ==
    CASE aggregation = S_sum -> "SUM"
      [] aggregation = S_avg -> "AVG"
      [] aggregation = S_count -> "COUNT"
      [] OTHER -> ""

\* the chart statements among the executed ones of the chart data GET
ChartStatements ==
    {i \in 1..Len(executed) : executed[i].name \in {"chartQuery", "pieQuery"}}

\* C7 as stated: the query the chart data GET builds applies sum, avg or
\* count to every y-axis column and groups by the x-axis column, and for
\* every chart type and aggregation it has a GROUP BY on x if and only if
\* every y expression is an aggregate function call.
C7_AsStated ==
    handler = "chart-data" =>
        \A i \in ChartStatements :
            LET q == executed[i]
                a == RequestedAggregation(request)
                yAxes == Split(request.yAxis)
            IN  /\ a \in {S_sum, S_avg, S_count} =>
                      /\ \A k \in 1..Len(yAxes) :
                            \E j \in 1..Len(q.ys) :
                                /\ q.ys[j].col = yAxes[k]
                                /\ q.ys[j].fn = SqlFunction(a)
                      /\ q.groupBy = <<request.xAxis>>
                /\ q.groupBy = <<request.xAxis>>
                      <=> \A j \in 1..Len(q.ys) : IsAggregateCall(q.ys[j])

\* C9 as stated: a pie request naming more than one y-axis column is
\* answered 400 without any query, and a successful pie response carries
\* exactly one series.
C9_AsStated ==
    (/\ handler \in {"chart-data", "chart-data-legacy"}
     /\ request.chartType = S_pie) =>
        /\ Len(RequestYAxes(request)) > 1
              => response.status = 400 /\ executed = <<>>
        /\ response.status = 200 => Len(response.series) = 1

---------------------------------------------------------------------------
(* Properties of buildAggregatedQuery (specification SpecAgg) *)

\* the query shape the thresholds 50 and 365 and the column's type call for
ExpectedBranch(n, temporal, numeric) ==
    IF n <= 50 THEN "raw"
    ELSE IF temporal THEN (IF n <= 365 THEN "day" ELSE "month")
    ELSE IF numeric THEN "bins"
    ELSE "top"

BucketedBranches == {"day", "month", "bins", "top"}

C4_AsStated ==
    (agg.phase = "built" /\ agg.evaluated) => Cardinality(agg.points) <= 50

Categories(table) == {table[i] : i \in DOMAIN table}

\* the categories of the table a row of the result stands for: its own, or
\* every category without a row of its own when it is a row for the others
StandsFor(point, points, table) ==
    IF point \in Categories(table) THEN {point}
    ELSE Categories(table) \ points

TopCategoriesRan == agg.phase = "built" /\ agg.branch = "top" /\ agg.evaluated

\* C5 as stated: for a categorical x-axis with more than 50 distinct values
\* the result has 50 rows, 49 categories and one more row that stands for
\* all the others, so that every row of the table contributes to the result.
C5_AsStated ==
    TopCategoriesRan =>
        /\ Cardinality(agg.points) = 50
        /\ Cardinality(agg.points \cap Categories(agg.table)) = 49
        /\ \A category \in Categories(agg.table) :
               \E point \in agg.points :
                   category \in StandsFor(point, agg.points, agg.table)

\* C5: for a categorical x-axis with more than 50 distinct values the result
\* is 50 categories of the table, each with its own aggregate; no category
\* left out has more rows than a category kept; there is no row for the
\* others, so the rows of the categories left out contribute to nothing.
C5_TopFifty ==
    TopCategoriesRan =>
        /\ Cardinality(agg.points) = 50
        /\ agg.points \subseteq Categories(agg.table)
        /\ \A kept \in agg.points :
               \A left \in Categories(agg.table) \ agg.points :
                   left.rows <= kept.rows
        /\ Cardinality(Categories(agg.table) \ agg.points) = agg.count - 50

C5_Witness ==
    /\ TopCategoriesRan
    /\ agg.count = 51
    /\ \E kept \in agg.points :
           \E left \in Categories(agg.table) \ agg.points :
               left.rows = kept.rows

---------------------------------------------------------------------------
(* Properties of transformPieChartData (specification SpecPie) *)

PieCategories(data) == {PieKey(data[i].x) : i \in DOMAIN data}

\* the sum of the input values of a set of rows
RECURSIVE InputSum(_, _)
InputSum(data, rows) ==
    IF rows = {} THEN 0
    ELSE LET i == CHOOSE k \in rows : TRUE
         IN  PieNumber(data[i].y) + InputSum(data, rows \ {i})

\* the sum of the input values of the rows of a set of categories
CategorySum(data, keys) ==
    InputSum(data, {i \in DOMAIN data : PieKey(data[i].x) \in keys})

\* C10: transformPieChartData returns at most 10 slices.  Up to 10
\* categories are returned one slice each; of more than 10 categories the 9
\* with the largest values are kept and one slice 'Other' holds the sum of
\* all the remaining categories.  The slice values add up to the sum of the
\* input values, and no kept slice is smaller than a collapsed category.
C10_PieSlices ==
    pie.phase = "done" =>
        LET data == pie.data
            result == pie.result
            cats == PieCategories(data)
            kept == IF Cardinality(cats) > 10 THEN 1..9 ELSE DOMAIN result
            collapsed == cats \ {result[i].label : i \in kept}
        IN  /\ Len(result) <= 10
            /\ kept \subseteq DOMAIN result
            /\ \A i \in kept :
                   /\ result[i].label \in cats
                   /\ result[i].value = CategorySum(data, {result[i].label})
                   /\ \A j \in kept :
                          result[j].label = result[i].label => j = i
                   /\ \A c \in collapsed :
                          CategorySum(data, {c}) <= result[i].value
            /\ IF Cardinality(cats) > 10
               THEN /\ Len(result) = 10
                    /\ result[10].label = S_Other
                    /\ result[10].value = CategorySum(data, collapsed)
               ELSE Len(result) = Cardinality(cats)
            /\ SumValues(result) = InputSum(data, DOMAIN data)

C10_Witness ==
    /\ pie.phase = "done"
    /\ Cardinality(PieCategories(pie.data)) > 10
    /\ Len(pie.result) = 10
    /\ pie.result[10].label = S_Other
    /\ pie.result[10].value > pie.result[9].value

---------------------------------------------------------------------------
(* Properties of line charts *)

\* the x-axis column of the request is a column of the table whose
\* DATA_TYPE is neither numeric nor temporal
DiscreteXAxis(req) ==
    /\ SchemaDataType(req.table, req.xAxis) # <<>>
    /\ ~isNumericType(getColumnType(req.table, req.xAxis))
    /\ ~isTemporalType(getColumnType(req.table, req.xAxis))

\* C11 as stated: a line-chart request to the chart endpoint whose x-axis
\* column is neither numeric nor temporal is answered with an error and
\* never with chart data.
C11_AsStated ==
    (/\ handler \in {"chart-data", "chart-series"}
     /\ request.chartType = S_line
     /\ DiscreteXAxis(request)) =>
        response.status # 200 /\ response.series = <<>>


---------------------------------------------------------------------------
(* Properties of the distinct values endpoint (specification SpecDistinct) *)

\* distinct_count / total_count > 19 / 20, in whole numbers; an empty table
\* has no ratio
RatioAbove95(counts) ==
    /\ counts.total_count # 0
    /\ 20 * counts.distinct_count > 19 * counts.total_count

\* C12: for every table, the empty one included, a successful response of
\* the distinct values endpoint has isIdColumn = true exactly when
\* distinct_count / total_count is strictly greater than 0.95, and then it
\* has no value list and no distinct values query was executed.
C12_IdColumn ==
    (handler = "distinct-values" /\ response.status = 200) =>
        /\ response.body.isIdColumn <=> RatioAbove95(db)
        /\ response.body.isIdColumn =>
               /\ "values" \notin response.body.keys
               /\ \A i \in 1..Len(executed) :
                      executed[i].name # "distinctQuery"
        /\ ~response.body.isIdColumn =>
               /\ "values" \in response.body.keys
               /\ executed[Len(executed)].name = "distinctQuery"

C12_Witness ==
    /\ handler = "distinct-values"
    /\ response.status = 200
    /\ db = [total_count |-> 20, distinct_count |-> 19]
    /\ ~response.body.isIdColumn

\* ---------------------------------------------------------------------
\* formatValue of the data endpoint (data/route.ts 63-90)
\* ---------------------------------------------------------------------

S_NaN == <<"N","a","N">>
S_ObjectObject == <<"[","o","b","j","e","c","t"," ","O","b","j","e","c","t","]">>
S_EmptyObject == <<"{","}">>
S_MidnightZ == <<"T","0","0",":","0","0",":","0","0",".","0","0","0","Z">>

\* JavaScript values other than null, numbers and strings.  A Date holds a
\* calendar day (year * 10000 + month * 100 + day, at midnight UTC); the
\* time value of an Invalid Date is NaN.  An object holds its JSON text, or
\* refers to itself.
JsUndefined == [type |-> "undefined", num |-> 0, str |-> <<>>]
JsDate(ymd) == [type |-> "date", num |-> ymd, str |-> <<>>]
JsInvalidDate == [type |-> "date", num |-> 0, str |-> S_NaN]
JsBigInt(n) == [type |-> "bigint", num |-> n, str |-> <<>>]
JsBuffer(bytes) == [type |-> "buffer", num |-> 0, str |-> bytes]
JsObject(json) == [type |-> "object", num |-> 0, str |-> json]
JsCircularObject == [type |-> "object", num |-> 1, str |-> <<>>]
JsBoolean(b) == [type |-> "boolean", num |-> IF b THEN 1 ELSE 0, str |-> <<>>]

Returned(v) == [threw |-> FALSE, value |-> v]
Thrown == [threw |-> TRUE, value |-> JsUndefined]

\* String.prototype.padStart(width, '0') of a natural number's text
RECURSIVE PadStart(_, _)
PadStart(s, width) == IF Len(s) >= width THEN s ELSE PadStart(<<"0">> \o s, width)

\* Date.prototype.toISOString: RangeError when the time value is NaN
toISOString(date) ==
    IF date.str = S_NaN THEN Thrown
    ELSE Returned(JsString(
            PadStart(NaturalToString(date.num \div 10000), 4) \o <<"-">>
            \o PadStart(NaturalToString((date.num \div 100) % 100), 2) \o <<"-">>
            \o PadStart(NaturalToString(date.num % 100), 2) \o S_MidnightZ))

\* JSON.stringify(object): TypeError on a circular structure
JsonStringify(value) == IF value.num = 1 THEN Thrown ELSE Returned(JsString(value.str))

formatValue_LongText(text) == Len(text) >= 10

formatValue(value) ==
    IF value.type \in {"null", "undefined"} THEN Returned(JsNull)
    ELSE IF value.type = "date" THEN toISOString(value)
    ELSE IF value.type = "number"
    THEN IF formatValue_LongText(NumberToString(value.num))
         THEN Returned(JsString(NumberToString(value.num)))
         ELSE Returned(value)
    ELSE IF value.type = "buffer" THEN Returned(JsString(value.str))
    ELSE IF value.type = "object"
    THEN IF JsonStringify(value).threw
         THEN Returned(JsString(S_ObjectObject))
         ELSE JsonStringify(value)
    ELSE Returned(value)

MaxDigits == 10

RECURSIVE PowerOfTen(_)
PowerOfTen(k) == IF k = 0 THEN 1 ELSE 10 * PowerOfTen(k - 1)

NumberSamples ==
    {sign * (PowerOfTen(k) + d) : sign \in {-1, 1}, k \in 0..(MaxDigits - 1), d \in {-1, 0, 1}}

FormatSamples ==
    {JsNull, JsUndefined, JsInvalidDate, JsCircularObject}
    \cup {JsNumber(n) : n \in NumberSamples}
    \cup {JsBigInt(n) : n \in {0, 1000000000}}
    \cup {JsDate(ymd) : ymd \in {2240229, 19700101, 20241231}}
    \cup {JsBuffer(b) : b \in {<<>>, S_abc}}
    \cup {JsObject(S_EmptyObject)}
    \cup {JsString(s) : s \in {<<>>, S_abc, <<"1","2","3","4","5","6","7","8","9","0">>}}
    \cup {JsBoolean(b) : b \in BOOLEAN}

FormatValue ==
    /\ fmt.phase = "value"
    /\ fmt' = [fmt EXCEPT !.phase = "formatted", !.result = formatValue(fmt.value)]
    /\ UNCHANGED <<pc, handler, request, response, executed, agg, pie, db>>
    /\ UNCHANGED <<line, calls, connections, cache, earlier>>
    /\ UNCHANGED ClientVars

InitFormat ==
    /\ pc = "idle"
    /\ handler = "none"
    /\ request = NoRequest
    /\ response = NoResponse
    /\ executed = <<>>
    /\ agg = NoAgg
    /\ pie = NoPie
    /\ db = EmptyDb
    /\ line = NoLine
    /\ calls = NoCalls
    /\ connections = {}
    /\ cache = EmptyCache
    /\ earlier = NoExchange
    /\ ClientIdle
    /\ fmt \in {[phase |-> "value", value |-> v, result |-> Thrown] : v \in FormatSamples}

NextFormat == FormatValue

SpecFormat == InitFormat /\ [][NextFormat]_vars

JsonSafe(v) == v.type \in {"null", "boolean", "number", "string"}

\* C13 as stated: formatValue returns a JSON-safe value for every kind of
\* value the driver can return: the result is always null, a boolean, a
\* number or a string; null and undefined give null, a Date gives its ISO
\* string, and a number whose decimal text has 10 or more characters gives
\* that text.
C13_AsStated ==
    fmt.phase = "formatted" =>
        /\ ~fmt.result.threw
        /\ JsonSafe(fmt.result.value)
        /\ fmt.value.type \in {"null", "undefined"} => fmt.result.value = JsNull
        /\ fmt.value.type = "date" =>
               /\ fmt.result.value.type = "string"
               /\ Len(fmt.result.value.str) = 24
        /\ (fmt.value.type = "number" /\ Len(NumberToString(fmt.value.num)) >= 10) =>
               fmt.result.value = JsString(NumberToString(fmt.value.num))


Remember ==
    /\ pc = "done"
    /\ earlier = NoExchange
    /\ ClientIdle
    /\ earlier' = [handler |-> handler, request |-> request, db |-> db,
                   response |-> response, executed |-> executed]
    /\ pc' = "idle"
    /\ handler' = "none"
    /\ request' = NoRequest
    /\ response' = NoResponse
    /\ executed' = <<>>
    /\ UNCHANGED <<agg, pie, db, fmt, line, calls, connections, cache>>
    /\ UNCHANGED ClientVars

NextRepeat ==
    \/ DataSortedGET
    \/ DataFilteredGET
    \/ ExportGET
    \/ TablesGET
    \/ ColumnsGET
    \/ DistinctValuesGET
    \/ Reply
    \/ Remember

SpecRepeat == Init /\ [][NextRepeat]_vars

SameRequestAgain ==
    /\ pc = "done"
    /\ earlier.handler = handler
    /\ earlier.request = request
    /\ earlier.db = db

MaxCalls == 3

OtherVars ==
    <<pc, handler, request, response, executed, agg, pie, db, fmt, line,
      cache, earlier, walk, race, grid, form, store>>

\* executeQuery(query, params) is called: the call has yet to connect
executeQuery ==
    /\ Len(calls) < MaxCalls
    /\ calls' = Append(calls, [at |-> "createConnection", pending |-> "none",
                               outcome |-> "pending"])
    /\ UNCHANGED connections
    /\ UNCHANGED OtherVars

\* const connection = await mysql.createConnection(dbConfig): the call gets
\* a connection of its own, or the rejection leaves executeQuery at once
createConnection(i) ==
    /\ calls[i].at = "createConnection"
    /\ \/ /\ connections' = connections \cup {i}
          /\ calls' = [calls EXCEPT ![i].at = "execute"]
       \/ /\ connections' = connections
          /\ calls' = [calls EXCEPT ![i].at = "settled", ![i].outcome = "rejected"]
    /\ UNCHANGED OtherVars

\* const [results] = await connection.execute(query, params); return results
TryExecute(i) ==
    /\ calls[i].at = "execute"
    /\ \/ calls' = [calls EXCEPT ![i].at = "finally", ![i].pending = "results"]
       \/ calls' = [calls EXCEPT ![i].at = "catch", ![i].pending = "error"]
    /\ UNCHANGED connections
    /\ UNCHANGED OtherVars

\* catch (error) { console.error(...); throw error; }
Catch(i) ==
    /\ calls[i].at = "catch"
    /\ calls' = [calls EXCEPT ![i].at = "finally"]
    /\ UNCHANGED connections
    /\ UNCHANGED OtherVars

\* a finally block that closes the connection after a failed query only
Finally_AfterErrorOnly(i) ==
    /\ calls[i].at = "finally"
    /\ connections' = IF calls[i].pending = "error" THEN connections \ {i} ELSE connections
    /\ calls' = [calls EXCEPT ![i].at = "settled",
                    ![i].outcome = IF calls[i].pending = "results"
                                   THEN "fulfilled" ELSE "rejected"]
    /\ UNCHANGED OtherVars

\* finally { await connection.end(); }: then the call settles with the
\* results or with the error thrown
Finally(i) ==
    /\ calls[i].at = "finally"
    /\ connections' = connections \ {i}
    /\ calls' = [calls EXCEPT ![i].at = "settled",
                    ![i].outcome = IF calls[i].pending = "results"
                                   THEN "fulfilled" ELSE "rejected"]
    /\ UNCHANGED OtherVars

InitConn ==
    /\ pc = "idle"
    /\ handler = "none"
    /\ request = NoRequest
    /\ response = NoResponse
    /\ executed = <<>>
    /\ agg = NoAgg
    /\ pie = NoPie
    /\ db = EmptyDb
    /\ fmt = NoFmt
    /\ line = NoLine
    /\ cache = EmptyCache
    /\ earlier = NoExchange
    /\ ClientIdle
    /\ calls = NoCalls
    /\ connections = {}

NextConn ==
    \/ executeQuery
    \/ \E i \in DOMAIN calls : createConnection(i)
    \/ \E i \in DOMAIN calls : TryExecute(i)
    \/ \E i \in DOMAIN calls : Catch(i)
    \/ \E i \in DOMAIN calls : Finally(i)

SpecConn == InitConn /\ [][NextConn]_vars

AllSettled == \A i \in DOMAIN calls : calls[i].at = "settled"

C17_AsStated ==
    (handler = "chart-data" /\ response.status = 200) =>
        \A i \in 1..Len(response.body.points) :
            /\ RendererFields(request.chartType) \subseteq response.body.points[i].keys
            /\ response.body.points[i].y = "computed"


\* ---------------------------------------------------------------------
\* Data GET of unnamed/part_006 with its pagination, run against the rows
\* of table t(city varchar, qty int)
\* ---------------------------------------------------------------------

\* a JavaScript number that is an integer, or NaN
NaN == [nan |-> TRUE, num |-> 0]
Num(n) == [nan |-> FALSE, num |-> n]

RECURSIVE StripLeadingBlanks(_)
StripLeadingBlanks(s) ==
    IF s # <<>> /\ Head(s) = " " THEN StripLeadingBlanks(Tail(s)) ELSE s

RECURSIVE DigitPrefix(_)
DigitPrefix(s) ==
    IF s = <<>> \/ Head(s) \notin DigitChars THEN <<>>
    ELSE <<Head(s)>> \o DigitPrefix(Tail(s))

Unsigned(s) == IF s # <<>> /\ Head(s) \in {"-", "+"} THEN Tail(s) ELSE s

\* parseInt(string): blanks, a sign, then the longest run of decimal
\* digits; NaN when there is no digit
SignedValue(stripped, digits) ==
    IF digits = <<>> THEN NaN
    ELSE IF Head(stripped) = "-" THEN Num(0 - DigitsToNatural(digits))
    ELSE Num(DigitsToNatural(digits))

parseInt(string) ==
    SignedValue(StripLeadingBlanks(string),
                DigitPrefix(Unsigned(StripLeadingBlanks(string))))

\* const offset = (page - 1) * pageSize
PageOffset(page, pageSize) ==
    IF page.nan \/ pageSize.nan THEN NaN ELSE Num((page.num - 1) * pageSize.num)

\* `${number}` in the query text
NumberText(n) == IF n.nan THEN S_NaN ELSE NumberToString(n.num)

\* LIMIT and OFFSET take unsigned integer literals: anything else is a
\* syntax error, and executeQuery throws
ValidLimitClause(limit, offset) ==
    /\ ~limit.nan /\ limit.num >= 0
    /\ ~offset.nan /\ offset.num >= 0

\* Math.ceil(total / pageSize): x / 0 is Infinity for x > 0 and NaN for 0
CeilDiv(total, pageSize) ==
    IF pageSize.nan \/ (pageSize.num = 0 /\ total = 0)
    THEN [finite |-> FALSE, nan |-> TRUE, num |-> 0]
    ELSE IF pageSize.num = 0
    THEN [finite |-> FALSE, nan |-> FALSE, num |-> 0]
    ELSE IF pageSize.num > 0
    THEN [finite |-> TRUE, nan |-> FALSE,
          num |-> (total + pageSize.num - 1) \div pageSize.num]
    ELSE [finite |-> TRUE, nan |-> FALSE,
          num |-> 0 - (total \div (0 - pageSize.num))]

\* column = ? with a text parameter: a text column compares as text, a
\* numeric column with the number the text begins with (0 if none)
SqlEquals(cell, param) ==
    IF cell.type = "number"
    THEN cell.num = (IF parseInt(param).nan THEN 0 ELSE parseInt(param).num)
    ELSE cell.str = param

\* WHERE c1 = ? OR c2 = ? ...
WhereClause_Or(row, filters) ==
    \/ filters = <<>>
    \/ \E i \in 1..Len(filters) : SqlEquals(row[filters[i].column], filters[i].value)

\* WHERE c1 = ? AND c2 = ? ...; no WHERE clause without filters
WhereClause(row, filters) ==
    \A i \in 1..Len(filters) : SqlEquals(row[filters[i].column], filters[i].value)

RECURSIVE Matching(_, _)
Matching(rows, filters) ==
    IF rows = <<>> THEN <<>>
    ELSE IF WhereClause(Head(rows), filters)
    THEN <<Head(rows)>> \o Matching(Tail(rows), filters)
    ELSE Matching(Tail(rows), filters)

\* LIMIT limit OFFSET offset of the rows in the order the table yields them
LimitOffset(rows, limit, offset) ==
    SubSeq(rows, offset + 1, IF offset + limit < Len(rows) THEN offset + limit ELSE Len(rows))

\* SELECT columnList: the row with the requested columns; then formatValue
\* on every value
FormattedRow(row, columns) ==
    [c \in Range(columns) |-> formatValue(row[c]).value]

FormattedRows(rows, columns) ==
    [i \in 1..Len(rows) |-> FormattedRow(rows[i], columns)]

\* the columns of table t that hold rows here
TableColumns == {S_city, S_qty}

TableRow(city, qty) == (S_city :> JsString(city)) @@ (S_qty :> JsNumber(qty))

\* A statement with the LIMIT and OFFSET spliced into its text
WithLimit(stmt, limit, offset) ==
    stmt @@ [limit |-> limit, offset |-> offset,
             limitText |-> NumberText(limit), offsetText |-> NumberText(offset)]

PageStatements(stmts, pageSize, offset) ==
    <<stmts[1], WithLimit(stmts[2], pageSize, offset)>>

PageBody(matching, columns, page, pageSize, offset) ==
    [kind |-> "data",
     rows |-> FormattedRows(LimitOffset(matching, pageSize.num, offset.num),
                            columns),
     total |-> Len(matching),
     page |-> page,
     pageSize |-> pageSize,
     totalPages |-> CeilDiv(Len(matching), pageSize)]

\* The two queries run (Promise.all) and the response is built.  The row
\* query fails on a table or column that does not exist and on a LIMIT or
\* OFFSET that is no unsigned integer.
PageOutcome(req, rows, failAt, stmts, page, pageSize, offset) ==
    IF \/ failAt # 0
       \/ req.table # S_t
       \/ ~(Range(ColumnList(req.columns)) \subseteq TableColumns)
       \/ ~ValidLimitClause(pageSize, offset)
    THEN Outcome(ErrorResponse(500, "Failed to fetch data"),
                 PageStatements(stmts, pageSize, offset))
    ELSE Outcome(JsonResponse(PageBody(
                     Matching(rows, CollectFilters(req.filters)),
                     ColumnList(req.columns), page, pageSize, offset)),
                 PageStatements(stmts, pageSize, offset))

PageChecked(req, rows, failAt, checked, page, pageSize) ==
    IF checked.response.status # 200 THEN checked
    ELSE PageOutcome(req, rows, failAt, checked.executed, page, pageSize,
                     PageOffset(page, pageSize))

\* GET of unnamed/part_006, whole: page and pageSize are parsed, the
\* parameters are checked and the two statements built as in
\* DataFilteredGET_Handle.
DataPageGET_Handle(req, rows, failAt) ==
    PageChecked(req, rows, failAt, DataFilteredGET_Handle(req, 0),
                parseInt(OrElse(req.page, <<"1">>)),
                parseInt(OrElse(req.pageSize, <<"1","0">>)))

S_a == <<"a">>
S_b == <<"b">>

MaxTableRows == 5

\* tables of 0..MaxTableRows rows: cities a, b, a, ... and quantities
\* 1, 1, 2, 2, 1, ...
TableOfRows(n) ==
    [i \in 1..n |-> TableRow(IF i % 2 = 1 THEN S_a ELSE S_b,
                             IF ((i - 1) \div 2) % 2 = 0 THEN 1 ELSE 2)]

PageDbSamples ==
    {[total_count |-> n, distinct_count |-> IF n < 2 THEN n ELSE 2,
      rows |-> TableOfRows(n)] : n \in 0..MaxTableRows}

PageSamples ==
    {Null, <<"0">>, <<"1">>, <<"2">>, <<"3">>, <<"-","1">>, <<"a">>,
     <<"2",".","5">>}

PageSizeSamples ==
    {Null, <<"0">>, <<"1">>, <<"2">>, <<"-","2">>, <<"t","e","n">>,
     <<" ","3","x">>}

PageFilterSamples ==
    {<<>>,
     <<Filter(S_city, S_a)>>,
     <<Filter(S_city, S_a), Filter(S_qty, <<"1">>)>>,
     <<Filter(S_qty, <<"2"," ","O","R"," ","1">>)>>,
     <<Filter(S_city, <<>>), Filter(S_qty, <<"1">>)>>,
     <<Filter(S_hint, <<"x">>)>>,
     <<Filter(S_city, S_b), Filter(<<"q", BACKTICK, ";">>, <<"x">>)>>}

PageColumnsSamples ==
    {S_city, S_city \o <<",">> \o S_qty, S_city \o <<",">> \o S_hint}

DataPageGET ==
    /\ pc = "idle"
    /\ \E columns \in PageColumnsSamples,
          filters \in PageFilterSamples,
          page \in PageSamples, pageSize \in PageSizeSamples :
           LET req == [NoRequest EXCEPT !.table = S_t, !.columns = columns,
                           !.filters = filters, !.page = page,
                           !.pageSize = pageSize]
           IN  \E failAt \in FailPoints(DataFilteredGET_Handle(req, 0)) :
                   Answer("data", req,
                          DataPageGET_Handle(req, db.rows, failAt))

InitPage ==
    /\ pc = "idle"
    /\ handler = "none"
    /\ request = NoRequest
    /\ response = NoResponse
    /\ executed = <<>>
    /\ agg = NoAgg
    /\ pie = NoPie
    /\ db \in PageDbSamples
    /\ fmt = NoFmt
    /\ line = NoLine
    /\ calls = NoCalls
    /\ connections = {}
    /\ cache = EmptyCache
    /\ earlier = NoExchange
    /\ ClientIdle

NextPage == DataPageGET \/ Reply

SpecPage == InitPage /\ [][NextPage]_vars


Satisfies(row, filters) ==
    \A i \in 1..Len(filters) :
        /\ filters[i].column \in DOMAIN row
        /\ SqlEquals(row[filters[i].column], filters[i].value)

FilterColumns(filters) == [i \in 1..Len(filters) |-> filters[i].column]

FilterValues(filters) == [i \in 1..Len(filters) |-> filters[i].value]

EndsWith(s, tail) ==
    /\ Len(tail) <= Len(s)
    /\ SubSeq(s, Len(s) - Len(tail) + 1, Len(s)) = tail

\* The filters for which the properties hold, read from the request
FilteredResponse(filters) ==
    /\ (\E i \in 1..Len(filters) :
            \/ filters[i].column \notin Range(Split(request.columns))
            \/ ~isValidIdentifier(filters[i].column)) =>
           /\ response.status = 400
           /\ executed = <<>>
    /\ executed # <<>> =>
           /\ Len(executed) = 2
           /\ executed[1].name = "countQuery"
           /\ executed[2].name = "dataQuery"
           /\ executed[1].params = FilterValues(filters)
           /\ executed[2].params = FilterValues(filters)
           /\ EndsWith(executed[1].embedded, FilterColumns(filters))
           /\ EndsWith(executed[2].embedded, FilterColumns(filters))
    /\ response.status = 200 =>
           /\ \A i \in 1..Len(response.body.rows) :
                  Satisfies(response.body.rows[i], filters)
           /\ response.body.total =
                  Cardinality({i \in 1..Len(db.rows) :
                                   Satisfies(db.rows[i], filters)})

\* C18 as stated: a filter is accepted only if its column is a requested
\* column and a valid identifier (otherwise 400 and no query), the count
\* query and the row query carry the same filter conjunction, every
\* returned row satisfies every filter of the request, and pagination.total
\* is the number of rows that satisfy all of them.
C18_AsStated == handler = "data" => FilteredResponse(request.filters)

\* C18: the same for the filters the handler collects, which are those
\* numbered from 0 up to the first one whose column or value is missing or
\* empty; the filters after that one are not looked at.
C18_CollectedFilters ==
    handler = "data" => FilteredResponse(CollectFilters(request.filters))

C18_Witness ==
    /\ handler = "data"
    /\ response.status = 200
    /\ Len(CollectFilters(request.filters)) = 2
    /\ Len(response.body.rows) = 2
    /\ response.body.total = 2
    /\ Len(db.rows) = MaxTableRows


\* C20 as stated: every row query of the data endpoint has an integer LIMIT
\* of at least 1 and an integer OFFSET of at least 0, whatever page and
\* pageSize the request carries (0, negative and non-numeric text
\* included), and totalPages of every success response is a finite
\* non-negative integer.
C20_AsStated ==
    handler = "data" =>
        /\ \A i \in 1..Len(executed) :
               executed[i].name = "dataQuery" =>
                   /\ ~executed[i].limit.nan
                   /\ executed[i].limit.num >= 1
                   /\ ~executed[i].offset.nan
                   /\ executed[i].offset.num >= 0
        /\ response.status = 200 =>
               /\ response.body.totalPages.finite
               /\ response.body.totalPages.num >= 0


\* ---------------------------------------------------------------------
\* buildLineChartQuery of chart-data/route.ts (285-359), run against the
\* distinct non-NULL values of the x-axis column.  Numeric values are
\* integers; temporal values are days counted from 2000-01-01 in months of
\* 28 days.
\* ---------------------------------------------------------------------

\* isValidContinuousData(dataType)
isValidContinuousData(dataType) == isNumericType(dataType) \/ isTemporalType(dataType)

MinValue(values) == CHOOSE v \in values : \A w \in values : v <= w

MaxValue(values) == CHOOSE v \in values : \A w \in values : w <= v

\* getDateFormat(minDate, maxDate), by the days between the two
getDateFormat(diffDays) ==
    IF diffDays <= 1 THEN "%Y-%m-%d %H:%i"
    ELSE IF diffDays <= 31 THEN "%Y-%m-%d"
    ELSE IF diffDays <= 365 THEN "%Y-%m"
    ELSE "%Y"

\* DATE_FORMAT(x, dateFormat) of day number d, as the number yyyymmdd cut
\* to the fields the format has
LineDateFormat(d, dateFormat) ==
    IF dateFormat = "%Y" THEN 2000 + (d \div 336)
    ELSE IF dateFormat = "%Y-%m"
    THEN (2000 + (d \div 336)) * 100 + 1 + ((d \div 28) % 12)
    ELSE (2000 + (d \div 336)) * 10000 + (1 + ((d \div 28) % 12)) * 100
             + 1 + (d % 28)

\* FLOOR((x - min_val) / bin_size), bin_size = (max_val - min_val) / 50
LineBin(x, min_val, max_val) ==
    ((x - min_val) * MAX_DATA_POINTS) \div (max_val - min_val)

\* ROUND(bin * bin_size + min_val, 2), in hundredths
LineBinX(bin, min_val, max_val) ==
    (bin * (max_val - min_val) * 100) \div MAX_DATA_POINTS + min_val * 100

LineBinnedXs(values, min_val, max_val) ==
    {LineBinX(LineBin(x, min_val, max_val), min_val, max_val) : x \in values}

LineResult(branch, xs, yAxisType) ==
    [threw |-> FALSE, branch |-> branch, xs |-> xs,
     y |-> IF isNumericType(yAxisType) THEN "AVG" ELSE "COUNT"]

\* The x values of the rows the query of buildLineChartQuery returns
buildLineChartQuery(xAxisType, yAxisType, values) ==
    IF ~isValidContinuousData(xAxisType)
    THEN [threw |-> TRUE, branch |-> "none", xs |-> {}, y |-> ""]
    ELSE IF isTemporalType(xAxisType)
    THEN LineResult("temporal",
             {LineDateFormat(d, getDateFormat(MaxValue(values) - MinValue(values))) :
                  d \in values},
             yAxisType)
    ELSE IF Cardinality(values) > MAX_DATA_POINTS
    THEN LineResult("binned",
             LineBinnedXs(values, MinValue(values), MaxValue(values)),
             yAxisType)
    ELSE LineResult("raw", {100 * x : x \in values}, yAxisType)

MaxStep == 3

LineSizes == {2, 50, 51, 52, 75, 101}

\* n values a fixed step apart, and n values of which the last lies far off
LineValueSamples ==
    {{lo + step * i : i \in 0..(n - 1)} :
         lo \in {-7, 0, 3}, step \in 1..MaxStep, n \in LineSizes}
    \cup {{lo + step * i : i \in 0..(n - 2)} \cup {lo + 1000} :
              lo \in {-7, 0, 3}, step \in 1..MaxStep, n \in LineSizes}

LineTypeSamples == {S_int, S_decimal, S_date, S_varchar}

BuildLineChart ==
    /\ line.phase = "column"
    /\ line' = [line EXCEPT !.phase = "built",
                    !.result = buildLineChartQuery(line.xAxisType,
                                   line.yAxisType, line.values)]
    /\ UNCHANGED <<pc, handler, request, response, executed, agg, pie, db>>
    /\ UNCHANGED <<fmt, calls, connections, cache, earlier>>
    /\ UNCHANGED ClientVars

InitLine ==
    /\ pc = "idle"
    /\ handler = "none"
    /\ request = NoRequest
    /\ response = NoResponse
    /\ executed = <<>>
    /\ agg = NoAgg
    /\ pie = NoPie
    /\ db = EmptyDb
    /\ fmt = NoFmt
    /\ calls = NoCalls
    /\ connections = {}
    /\ cache = EmptyCache
    /\ earlier = NoExchange
    /\ ClientIdle
    /\ line \in {[phase |-> "column", xAxisType |-> xt, yAxisType |-> yt,
                  values |-> vs,
                  result |-> [threw |-> FALSE, branch |-> "none", xs |-> {},
                              y |-> ""]] :
                     xt \in LineTypeSamples, yt \in {S_int, S_varchar},
                     vs \in LineValueSamples}

NextLine == BuildLineChart

SpecLine == InitLine /\ [][NextLine]_vars

\* C19 as stated: for a numeric x-axis column with more than 50 distinct
\* values, the binned query of buildLineChartQuery returns at most 50
\* distinct x values, whatever the values are.
C19_AsStated ==
    (/\ line.phase = "built"
     /\ isNumericType(line.xAxisType)
     /\ Cardinality(line.values) > MAX_DATA_POINTS) =>
        /\ line.result.branch = "binned"
        /\ Cardinality(line.result.xs) <= MAX_DATA_POINTS


\* ---------------------------------------------------------------------
\* A client of the data endpoint (part_006) that fetches page 1, reads
\* totalPages and fetches the pages up to it.  The table does not change.
\* The row query has no ORDER BY: each query yields the rows of the table
\* in an order of the database's choosing.
\* ---------------------------------------------------------------------

MaxWalkRows == 4

\* table t with rows that differ from each other: cities a, b, a, ... and
\* quantities 1, 2, 3, ...
WalkTable(n) == [i \in 1..n |-> TableRow(IF i % 2 = 1 THEN S_a ELSE S_b, i)]

\* the orders in which a query without ORDER BY may yield the rows
ScanOrders(rows) ==
    {[i \in 1..Len(rows) |-> rows[p[i]]] : p \in Permutations(1..Len(rows))}

WalkRequest(page, pageSize, filters) ==
    [NoRequest EXCEPT !.table = S_t, !.columns = S_city \o <<",">> \o S_qty,
                      !.filters = filters, !.page = NumberToString(page),
                      !.pageSize = NumberToString(pageSize)]

\* the response to the request for one page, the rows scanned in order
FetchedPage(page, pageSize, filters, order) ==
    DataPageGET_Handle(WalkRequest(page, pageSize, filters), order, 0).response.body

FetchPage ==
    /\ walk.phase = "fetching"
    /\ \E order \in ScanOrders(db.rows) :
           walk' = [walk EXCEPT
               !.pages = Append(@, FetchedPage(walk.page, walk.pageSize,
                                               walk.filters, order).rows),
               !.totalPages = FetchedPage(walk.page, walk.pageSize,
                                          walk.filters, order).totalPages.num,
               !.page = @ + 1,
               !.phase =
                   IF walk.page >= FetchedPage(walk.page, walk.pageSize,
                                      walk.filters, order).totalPages.num
                   THEN "finished" ELSE "fetching"]
    /\ UNCHANGED ServerVars
    /\ UNCHANGED <<race, grid, form, store>>

WalkFilterSamples == {<<>>, <<Filter(S_city, S_a)>>}

InitWalk ==
    /\ pc = "idle"
    /\ handler = "none"
    /\ request = NoRequest
    /\ response = NoResponse
    /\ executed = <<>>
    /\ agg = NoAgg
    /\ pie = NoPie
    /\ db \in {[total_count |-> n, distinct_count |-> n, rows |-> WalkTable(n)] :
                   n \in 0..MaxWalkRows}
    /\ fmt = NoFmt
    /\ line = NoLine
    /\ calls = NoCalls
    /\ connections = {}
    /\ cache = EmptyCache
    /\ earlier = NoExchange
    /\ walk \in {[phase |-> "fetching", page |-> 1, pageSize |-> size,
                  filters |-> filters, pages |-> <<>>, totalPages |-> 0] :
                     size \in 1..MaxWalkRows, filters \in WalkFilterSamples}
    /\ race = NoRace
    /\ grid = NoGrid
    /\ form = NoForm
    /\ store = NoStore

NextWalk == FetchPage

SpecWalk == InitWalk /\ [][NextWalk]_vars

MatchingRows ==
    {FormattedRow(db.rows[i], <<S_city, S_qty>>) :
         i \in {k \in 1..Len(db.rows) : Satisfies(db.rows[k], walk.filters)}}

\* C21 as stated: with the table, the filters and pageSize >= 1 fixed, the
\* pages 1 to totalPages together hold every matching row exactly once: no
\* row on two pages, no row skipped.
C21_AsStated ==
    walk.phase = "finished" =>
        /\ Range(Flatten(walk.pages)) = MatchingRows
        /\ Len(Flatten(walk.pages)) = Cardinality(MatchingRows)


\* ---------------------------------------------------------------------
\* The count query and the row query of one request of unnamed/part_006,
\* each on a connection of its own (lib/db.ts executeQuery), while another
\* client of the database writes to the table.
\* ---------------------------------------------------------------------

MaxRaceRows == 2

MaxWrites == 2

RaceRequest(filters) ==
    [NoRequest EXCEPT !.table = S_t, !.columns = S_city \o <<",">> \o S_qty,
                      !.filters = filters]

\* executeQuery(countQuery, filterValues): countResult[0].total of the
\* table as it is when the statement runs
CountResult(filters, rows) ==
    DataPageGET_Handle(RaceRequest(filters), rows, 0).response.body.total

\* executeQuery(dataQuery, filterValues): the formatted rows of the table
\* as it is when the statement runs
RowsResult(filters, rows) ==
    DataPageGET_Handle(RaceRequest(filters), rows, 0).response.body.rows

TableOf(rows) ==
    [total_count |-> Len(rows), distinct_count |-> Len(rows), rows |-> rows]

\* first element of Promise.all: the count statement runs
CountQuery ==
    /\ race.phase = "querying"
    /\ ~race.counted
    /\ race' = [race EXCEPT !.counted = TRUE,
                            !.total = CountResult(race.filters, db.rows)]
    /\ UNCHANGED ServerVars
    /\ UNCHANGED <<walk, grid, form, store>>

\* second element of Promise.all: the row statement runs; readFrom keeps
\* the table the rows were read from
RowQuery ==
    /\ race.phase = "querying"
    /\ ~race.selected
    /\ race' = [race EXCEPT !.selected = TRUE,
                            !.rows = RowsResult(race.filters, db.rows),
                            !.readFrom = db.rows]
    /\ UNCHANGED ServerVars
    /\ UNCHANGED <<walk, grid, form, store>>

\* Another client of the database commits an INSERT or a DELETE on the
\* table; no transaction or lock of the request keeps it out.
OtherClientWrite ==
    /\ race.phase = "querying"
    /\ race.writes < MaxWrites
    /\ \/ db' = TableOf(Append(db.rows,
                     TableRow(S_a, MaxRaceRows + race.writes + 1)))
       \/ /\ db.rows # <<>>
          /\ db' = TableOf(Tail(db.rows))
    /\ race' = [race EXCEPT !.writes = @ + 1]
    /\ UNCHANGED <<pc, handler, request, response, executed, agg, pie, fmt, line, calls, connections, cache, earlier>>
    /\ UNCHANGED <<walk, grid, form, store>>

\* Both promises are fulfilled: the response is built from the two results
Respond ==
    /\ race.phase = "querying"
    /\ race.counted
    /\ race.selected
    /\ race' = [race EXCEPT !.phase = "responded",
                            !.body = [rows |-> race.rows,
                                      total |-> race.total,
                                      totalPages |-> CeilDiv(race.total, Num(10)).num]]
    /\ UNCHANGED ServerVars
    /\ UNCHANGED <<walk, grid, form, store>>

InitRace ==
    /\ pc = "idle"
    /\ handler = "none"
    /\ request = NoRequest
    /\ response = NoResponse
    /\ executed = <<>>
    /\ agg = NoAgg
    /\ pie = NoPie
    /\ fmt = NoFmt
    /\ line = NoLine
    /\ calls = NoCalls
    /\ connections = {}
    /\ cache = EmptyCache
    /\ earlier = NoExchange
    /\ db \in {TableOf(WalkTable(n)) : n \in 0..MaxRaceRows}
    /\ race \in {[phase |-> "querying", filters |-> filters,
                  counted |-> FALSE, selected |-> FALSE, writes |-> 0,
                  total |-> 0, rows |-> <<>>, readFrom |-> <<>>,
                  body |-> [rows |-> <<>>, total |-> 0, totalPages |-> 0]] :
                     filters \in WalkFilterSamples}
    /\ walk = NoWalk
    /\ grid = NoGrid
    /\ form = NoForm
    /\ store = NoStore

NextRace == CountQuery \/ RowQuery \/ OtherClientWrite \/ Respond

SpecRace == InitRace /\ [][NextRace]_vars

\* C22 as stated: the total of the response is the number of matching rows
\* of the table state the returned rows were read from, whatever another
\* client writes between the two queries.
C22_AsStated ==
    race.phase = "responded" =>
        race.body.total = CountResult(race.filters, race.readFrom)


\* ---------------------------------------------------------------------
\* The dashboard: store/dashboard.ts (selectedTable, selectedColumns,
\* chartType, chartConfig), the TableSelector component with its own
\* state, and what DashboardLayout renders from the store.
\* ---------------------------------------------------------------------

\* the tables of the database and their columns, as /api/tables and
\* /api/columns report them
Schema == (S_t :> <<S_city, S_qty>>) @@ (S_abc :> <<S_day, S_price>>)

SchemaTables == <<S_t, S_abc>>

\* useState of TableSelector
NewSelector ==
    [tables |-> <<>>, selectedTable |-> <<>>, columns |-> <<>>,
     selectedColumns |-> <<>>, loading |-> TRUE, error |-> FALSE,
     fetching |-> "tables"]

\* create<DashboardState>: the initial store, with the activeFilters of
\* DashboardLayout and the TableSelector mounted in it
NewDashboard ==
    [phase |-> "dashboard",
     selectedTable |-> Null,
     selectedColumns |-> <<>>,
     chartType |-> S_bar,
     chartConfig |-> [xAxis |-> Null, yAxis |-> Null],
     activeFilters |-> <<>>,
     selector |-> NewSelector]

\* JavaScript truthiness of string | null
Chosen(value) == value # Null /\ value # <<>>

\* selectedColumns.filter(c => c !== column)
WithoutColumn(columns, column) ==
    SelectSeq(columns, LAMBDA c : c # column)

\* fetchTables, fulfilled
FetchTablesDone ==
    /\ store.phase = "dashboard"
    /\ store.selector.fetching = "tables"
    /\ store' = [store EXCEPT !.selector.tables = SchemaTables,
                              !.selector.loading = FALSE,
                              !.selector.fetching = "nothing"]
    /\ UNCHANGED ServerVars
    /\ UNCHANGED <<walk, race, grid, form>>

\* fetchTables or fetchColumns, rejected or answered with an error status
FetchFailed ==
    /\ store.phase = "dashboard"
    /\ store.selector.fetching # "nothing"
    /\ store' = [store EXCEPT !.selector.error = TRUE,
                              !.selector.columns =
                                  IF store.selector.fetching = "columns"
                                  THEN <<>> ELSE @,
                              !.selector.loading = FALSE,
                              !.selector.fetching = "nothing"]
    /\ UNCHANGED ServerVars
    /\ UNCHANGED <<walk, race, grid, form>>

\* handleTableChange(value) with the onTableSelect of DashboardLayout, up
\* to the await of fetchColumns
handleTableChange(value) ==
    /\ store.phase = "dashboard"
    /\ ~store.selector.error
    /\ ~store.selector.loading
    /\ store' = [store EXCEPT !.selector.selectedTable = value,
                              !.selectedTable = value,
                              !.activeFilters = <<>>,
                              !.selector.loading = TRUE,
                              !.selector.fetching = "columns"]
    /\ UNCHANGED ServerVars
    /\ UNCHANGED <<walk, race, grid, form>>

\* fetchColumns, fulfilled
FetchColumnsDone ==
    /\ store.phase = "dashboard"
    /\ store.selector.fetching = "columns"
    /\ store' = [store EXCEPT !.selector.columns =
                                  Schema[store.selector.selectedTable],
                              !.selector.selectedColumns = <<>>,
                              !.selector.loading = FALSE,
                              !.selector.fetching = "nothing"]
    /\ UNCHANGED ServerVars
    /\ UNCHANGED <<walk, race, grid, form>>

NewSelection(column) ==
    IF column \in Range(store.selector.selectedColumns)
    THEN WithoutColumn(store.selector.selectedColumns, column)
    ELSE Append(store.selector.selectedColumns, column)

\* handleColumnToggle(column) with the onColumnsSelect of DashboardLayout
handleColumnToggle(column) ==
    /\ store.phase = "dashboard"
    /\ ~store.selector.error
    /\ ~store.selector.loading
    /\ Chosen(store.selector.selectedTable)
    /\ column \in Range(store.selector.columns)
    /\ store' = [store EXCEPT !.selector.selectedColumns = NewSelection(column),
                              !.selectedColumns = NewSelection(column),
                              !.activeFilters = <<>>]
    /\ UNCHANGED ServerVars
    /\ UNCHANGED <<walk, race, grid, form>>

\* selectedTable && selectedColumns.length > 0
TableRendered ==
    /\ store.phase = "dashboard"
    /\ Chosen(store.selectedTable)
    /\ Len(store.selectedColumns) > 0

\* chartConfig.xAxis && chartConfig.yAxis inside it
ChartRendered ==
    /\ TableRendered
    /\ Chosen(store.chartConfig.xAxis)
    /\ Chosen(store.chartConfig.yAxis)

\* the options of an axis <select>: '' and the selected columns
AxisOptions == {<<>>} \cup Range(store.selectedColumns)

\* onChange of the chart type <select>
setChartType(type) ==
    /\ TableRendered
    /\ store' = [store EXCEPT !.chartType = type]
    /\ UNCHANGED ServerVars
    /\ UNCHANGED <<walk, race, grid, form>>

\* onChange of the x-axis and of the y-axis <select>
setChartConfig(axis, value) ==
    /\ TableRendered
    /\ value \in AxisOptions
    /\ store' = [store EXCEPT !.chartConfig =
                     IF axis = "xAxis" THEN [@ EXCEPT !.xAxis = value]
                     ELSE [@ EXCEPT !.yAxis = value]]
    /\ UNCHANGED ServerVars
    /\ UNCHANGED <<walk, race, grid, form>>

InitDash ==
    /\ pc = "idle"
    /\ handler = "none"
    /\ request = NoRequest
    /\ response = NoResponse
    /\ executed = <<>>
    /\ agg = NoAgg
    /\ pie = NoPie
    /\ db = [total_count |-> 0, distinct_count |-> 0, rows |-> <<>>]
    /\ fmt = NoFmt
    /\ line = NoLine
    /\ calls = NoCalls
    /\ connections = {}
    /\ cache = EmptyCache
    /\ earlier = NoExchange
    /\ walk = NoWalk
    /\ race = NoRace
    /\ grid = NoGrid
    /\ form = NoForm
    /\ store = NewDashboard

AllColumns == UNION {Range(Schema[t]) : t \in Range(SchemaTables)}

NextDash ==
    \/ FetchTablesDone
    \/ FetchFailed
    \/ \E value \in Range(SchemaTables) : handleTableChange(value)
    \/ FetchColumnsDone
    \/ \E column \in AllColumns : handleColumnToggle(column)
    \/ \E type \in Range(VALID_CHART_TYPES) : setChartType(type)
    \/ \E axis \in {"xAxis", "yAxis"}, value \in {<<>>} \cup AllColumns :
           setChartConfig(axis, value)

SpecDash == InitDash /\ [][NextDash]_vars

\* C23 as stated: whenever the data table or a chart is rendered for the
\* selected table, the selected columns and the two axis columns of the
\* store are columns of that table.
C23_AsStated ==
    /\ TableRendered =>
           Range(store.selectedColumns) \subseteq Range(Schema[store.selectedTable])
    /\ ChartRendered =>
           {store.chartConfig.xAxis, store.chartConfig.yAxis}
               \subseteq Range(Schema[store.selectedTable])


\* ---------------------------------------------------------------------
\* The DataTable component: its page state, its props, and the query of
\* the current page.
\* ---------------------------------------------------------------------

DataTable_pageSize == 20

\* the number of rows that match in the tables shown here
GridTotal(table, filters) ==
    IF table = S_t THEN (IF filters = <<>> THEN 45 ELSE 5)
    ELSE IF table = S_abc THEN (IF filters = <<>> THEN 21 ELSE 0)
    ELSE (IF filters = <<>> THEN 85 ELSE 20)

GridTables == {S_t, S_abc, S_x}

GridColumns == {<<>>, <<S_city>>, <<S_city, S_qty>>}

\* Math.ceil(total / pageSize) of the response
GridTotalPages(table, filters) ==
    CeilDiv(GridTotal(table, filters), Num(DataTable_pageSize)).num

\* data.rows.length: the rows LIMIT pageSize OFFSET (page - 1) * pageSize
\* leaves of the matching rows
GridRowsOnPage(table, filters, page) ==
    Len(LimitOffset([i \in 1..GridTotal(table, filters) |-> i],
                    DataTable_pageSize, (page - 1) * DataTable_pageSize))

\* useQuery for a new query key: enabled only with a table and columns
NewQuery(table, columns) ==
    [status |-> IF table # <<>> /\ Len(columns) > 0 THEN "loading" ELSE "disabled",
     rows |-> 0, totalPages |-> 0]

\* the props change: the query key changes, the page state is kept
GridProps(table, columns, filters) ==
    /\ grid.phase = "table"
    /\ <<table, columns, filters>> # <<grid.table, grid.columns, grid.filters>>
    /\ grid' = [grid EXCEPT !.table = table, !.columns = columns,
                            !.filters = filters,
                            !.query = NewQuery(table, columns)]
    /\ UNCHANGED ServerVars
    /\ UNCHANGED <<walk, race, form, store>>

\* queryFn fulfilled: data of the current key
GridLoaded ==
    /\ grid.phase = "table"
    /\ grid.query.status = "loading"
    /\ grid' = [grid EXCEPT !.query =
                    [status |-> "success",
                     rows |-> GridRowsOnPage(grid.table, grid.filters, grid.page),
                     totalPages |-> GridTotalPages(grid.table, grid.filters)]]
    /\ UNCHANGED ServerVars
    /\ UNCHANGED <<walk, race, form, store>>

\* queryFn rejected: isError
GridFailed ==
    /\ grid.phase = "table"
    /\ grid.query.status = "loading"
    /\ grid' = [grid EXCEPT !.query.status = "error"]
    /\ UNCHANGED ServerVars
    /\ UNCHANGED <<walk, race, form, store>>

\* the pagination buttons are rendered: data with at least one row
ButtonsRendered ==
    /\ grid.phase = "table"
    /\ grid.query.status = "success"
    /\ grid.query.rows > 0

Min2(a, b) == IF a < b THEN a ELSE b

Max2(a, b) == IF a > b THEN a ELSE b

\* onClick of Previous: setPage(p => Math.max(1, p - 1)), disabled when
\* page <= 1
PreviousClick ==
    /\ ButtonsRendered
    /\ ~(grid.page <= 1)
    /\ grid' = [grid EXCEPT !.page = Max2(1, grid.page - 1),
                            !.query = NewQuery(grid.table, grid.columns)]
    /\ UNCHANGED ServerVars
    /\ UNCHANGED <<walk, race, form, store>>

\* onClick of Next: setPage(p => Math.min(pagination.totalPages, p + 1)),
\* disabled when page >= pagination.totalPages
NextClick ==
    /\ ButtonsRendered
    /\ ~(grid.page >= grid.query.totalPages)
    /\ grid' = [grid EXCEPT !.page = Min2(grid.query.totalPages, grid.page + 1),
                            !.query = NewQuery(grid.table, grid.columns)]
    /\ UNCHANGED ServerVars
    /\ UNCHANGED <<walk, race, form, store>>

InitGrid ==
    /\ pc = "idle"
    /\ handler = "none"
    /\ request = NoRequest
    /\ response = NoResponse
    /\ executed = <<>>
    /\ agg = NoAgg
    /\ pie = NoPie
    /\ db = [total_count |-> 0, distinct_count |-> 0, rows |-> <<>>]
    /\ fmt = NoFmt
    /\ line = NoLine
    /\ calls = NoCalls
    /\ connections = {}
    /\ cache = EmptyCache
    /\ earlier = NoExchange
    /\ walk = NoWalk
    /\ race = NoRace
    /\ form = NoForm
    /\ store = NoStore
    /\ grid \in {[phase |-> "table", table |-> table, columns |-> columns,
                  filters |-> filters, page |-> 1,
                  query |-> NewQuery(table, columns)] :
                     table \in GridTables, columns \in GridColumns,
                     filters \in WalkFilterSamples}

NextGrid ==
    \/ \E table \in GridTables, columns \in GridColumns, filters \in WalkFilterSamples :
           GridProps(table, columns, filters)
    \/ GridLoaded
    \/ GridFailed
    \/ PreviousClick
    \/ NextClick

SpecGrid == InitGrid /\ [][NextGrid]_vars

\* C24 as stated: the page is at least 1 and at most max(1, totalPages) of
\* the result set the props ask for.
C24_AsStated ==
    grid.phase = "table" =>
        /\ 1 <= grid.page
        /\ grid.page <= Max2(1, GridTotalPages(grid.table, grid.filters))


\* ---------------------------------------------------------------------
\* The chart form of ChartControls: the newChart state, its handlers, and
\* the chart handed to addChart.
\* ---------------------------------------------------------------------

\* useState<Omit<ChartConfig, 'id'>>: the empty form
EmptyChart ==
    [chartType |-> S_bar, xAxis |-> Null, yAxes |-> <<>>,
     aggregation |-> S_none, title |-> <<>>]

\* no chart was handed to addChart yet
NoChart == [chartType |-> <<>>]

availableColumns == <<S_city, S_qty>>

FormTitles == {<<>>, S_abc}

FormAggregations == {S_none, S_sum}

\* handleYAxisToggle without the rule for pie charts
handleYAxisToggle_Unlimited(prev, column) ==
    [prev EXCEPT !.yAxes = IF column \in Range(prev.yAxes)
                           THEN WithoutColumn(prev.yAxes, column)
                           ELSE Append(prev.yAxes, column)]

\* the updater of handleYAxisToggle(column)
handleYAxisToggle(prev, column) ==
    IF /\ prev.chartType = S_pie
       /\ Len(handleYAxisToggle_Unlimited(prev, column).yAxes) > 1
    THEN [prev EXCEPT !.yAxes = <<column>>]
    ELSE handleYAxisToggle_Unlimited(prev, column)

\* prev.yAxes.slice(0, 1)
SliceFirst(yAxes) == SubSeq(yAxes, 1, Min2(1, Len(yAxes)))

\* onChange of the title input
TitleChange(title) ==
    /\ form.phase = "form"
    /\ form' = [form EXCEPT !.newChart.title = title]
    /\ UNCHANGED ServerVars
    /\ UNCHANGED <<walk, race, grid, store>>

\* onValueChange of the chart type select
ChartTypeChange(value) ==
    /\ form.phase = "form"
    /\ form' = [form EXCEPT !.newChart.chartType = value,
                            !.newChart.yAxes =
                                IF value = S_pie THEN SliceFirst(@) ELSE @]
    /\ UNCHANGED ServerVars
    /\ UNCHANGED <<walk, race, grid, store>>

\* onValueChange of the x-axis select
XAxisChange(value) ==
    /\ form.phase = "form"
    /\ form' = [form EXCEPT !.newChart.xAxis = value]
    /\ UNCHANGED ServerVars
    /\ UNCHANGED <<walk, race, grid, store>>

\* onCheckedChange of a y-axis checkbox
YAxisToggle(column) ==
    /\ form.phase = "form"
    /\ form' = [form EXCEPT !.newChart = handleYAxisToggle(@, column)]
    /\ UNCHANGED ServerVars
    /\ UNCHANGED <<walk, race, grid, store>>

\* onValueChange of the aggregation select
AggregationChange(value) ==
    /\ form.phase = "form"
    /\ form' = [form EXCEPT !.newChart.aggregation = value]
    /\ UNCHANGED ServerVars
    /\ UNCHANGED <<walk, race, grid, store>>

\* handleAddChart: returns early on an incomplete form, else hands the
\* form to addChart and resets it
handleAddChart ==
    /\ form.phase = "form"
    /\ form' = IF ~Chosen(form.newChart.xAxis) \/ Len(form.newChart.yAxes) = 0
               THEN form
               ELSE [form EXCEPT !.passed = form.newChart,
                                 !.newChart = EmptyChart]
    /\ UNCHANGED ServerVars
    /\ UNCHANGED <<walk, race, grid, store>>

InitForm ==
    /\ pc = "idle"
    /\ handler = "none"
    /\ request = NoRequest
    /\ response = NoResponse
    /\ executed = <<>>
    /\ agg = NoAgg
    /\ pie = NoPie
    /\ db = [total_count |-> 0, distinct_count |-> 0, rows |-> <<>>]
    /\ fmt = NoFmt
    /\ line = NoLine
    /\ calls = NoCalls
    /\ connections = {}
    /\ cache = EmptyCache
    /\ earlier = NoExchange
    /\ walk = NoWalk
    /\ race = NoRace
    /\ grid = NoGrid
    /\ store = NoStore
    /\ form = [phase |-> "form", newChart |-> EmptyChart, passed |-> NoChart]

NextForm ==
    \/ \E title \in FormTitles : TitleChange(title)
    \/ \E value \in Range(VALID_CHART_TYPES) : ChartTypeChange(value)
    \/ \E value \in Range(availableColumns) : XAxisChange(value)
    \/ \E column \in Range(availableColumns) : YAxisToggle(column)
    \/ \E value \in FormAggregations : AggregationChange(value)
    \/ handleAddChart

SpecForm == InitForm /\ [][NextForm]_vars

\* C25: a chart handed to addChart has an x-axis and at least one y-axis,
\* and a form whose chart type is pie has at most one y-axis selected.
C25_FormValid ==
    form.phase = "form" =>
        /\ form.passed # NoChart =>
               /\ Chosen(form.passed.xAxis)
               /\ Len(form.passed.yAxes) >= 1
        /\ form.newChart.chartType = S_pie => Len(form.newChart.yAxes) <= 1

\* a pie chart was handed to addChart, and the form, pie again, holds the
\* other column as its one y-axis
C25_Witness ==
    /\ form.phase = "form"
    /\ form.passed # NoChart
    /\ form.passed.chartType = S_pie
    /\ form.passed.yAxes = <<S_city>>
    /\ form.newChart.chartType = S_pie
    /\ form.newChart.yAxes = <<S_qty>>


\* ---------------------------------------------------------------------
\* The charts of the dashboard store: addChart, updateChart, deleteChart
\* (store/dashboard.ts, second revision, and the revision kept in
\* store/toast.ts).
\* ---------------------------------------------------------------------

MaxCharts == 3

\* Math.random().toString(36).substring(7), crypto.randomUUID(): the
\* strings a call can return; a random number with a short expansion in
\* base 36, such as 0.5 ("0.i"), leaves the empty string
RandomIds == {<<>>, S_a, S_b}

\* configurations the chart form hands over
ChartConfigSamples ==
    {[EmptyChart EXCEPT !.xAxis = S_city, !.yAxes = <<S_qty>>],
     [EmptyChart EXCEPT !.chartType = S_pie, !.xAxis = S_city,
                        !.yAxes = <<S_qty>>, !.title = S_abc]}

\* Partial<ChartConfig> arguments of updateChart
PartialConfigSamples == {[title |-> S_x], [chartType |-> S_line, aggregation |-> S_sum]}

\* { ...config, id }
WithId(config, id) == [id |-> id] @@ config

\* { ...chart, ...config }
Spread(chart, config) == config @@ chart

\* state.charts.map(chart => chart.id === id ? { ...chart, ...config } : chart)
MapCharts(charts, id, config) ==
    [i \in 1..Len(charts) |->
        IF charts[i].id = id THEN Spread(charts[i], config) ELSE charts[i]]

\* state.charts.filter(chart => chart.id !== id)
FilterCharts(charts, id) == SelectSeq(charts, LAMBDA chart : chart.id # id)

\* the number of charts of the list with this id
ChartsWithId(charts, id) ==
    Cardinality({i \in 1..Len(charts) : charts[i].id = id})

\* addChart(config): the id is whatever the random source returns
addChart(config, id) ==
    /\ store.phase = "charts"
    /\ Len(store.charts) < MaxCharts
    /\ store' = [store EXCEPT !.charts = Append(@, WithId(config, id)),
                              !.last = [op |-> "addChart", touched |-> 0]]
    /\ UNCHANGED ServerVars
    /\ UNCHANGED <<walk, race, grid, form>>

\* updateChart(id, config); touched counts the charts the call replaced
updateChart(id, config) ==
    /\ store.phase = "charts"
    /\ store' = [store EXCEPT !.charts = MapCharts(@, id, config),
                              !.last = [op |-> "updateChart",
                                        touched |-> ChartsWithId(store.charts, id)]]
    /\ UNCHANGED ServerVars
    /\ UNCHANGED <<walk, race, grid, form>>

\* deleteChart(id); touched counts the charts the call removed
deleteChart(id) ==
    /\ store.phase = "charts"
    /\ store' = [store EXCEPT !.charts = FilterCharts(@, id),
                              !.last = [op |-> "deleteChart",
                                        touched |-> ChartsWithId(store.charts, id)]]
    /\ UNCHANGED ServerVars
    /\ UNCHANGED <<walk, race, grid, form>>

InitCharts ==
    /\ pc = "idle"
    /\ handler = "none"
    /\ request = NoRequest
    /\ response = NoResponse
    /\ executed = <<>>
    /\ agg = NoAgg
    /\ pie = NoPie
    /\ db = [total_count |-> 0, distinct_count |-> 0, rows |-> <<>>]
    /\ fmt = NoFmt
    /\ line = NoLine
    /\ calls = NoCalls
    /\ connections = {}
    /\ cache = EmptyCache
    /\ earlier = NoExchange
    /\ walk = NoWalk
    /\ race = NoRace
    /\ grid = NoGrid
    /\ form = NoForm
    /\ store = [phase |-> "charts", charts |-> <<>>,
                last |-> [op |-> "create", touched |-> 0]]

NextCharts ==
    \/ \E config \in ChartConfigSamples, id \in RandomIds : addChart(config, id)
    \/ \E id \in RandomIds, config \in PartialConfigSamples : updateChart(id, config)
    \/ \E id \in RandomIds : deleteChart(id)

SpecCharts == InitCharts /\ [][NextCharts]_vars

\* C26 as stated: the ids of the charts in the store are pairwise
\* distinct, and an updateChart or deleteChart touched at most one chart.
C26_AsStated ==
    store.phase = "charts" =>
        /\ \A i, j \in 1..Len(store.charts) :
               i # j => store.charts[i].id # store.charts[j].id
        /\ store.last.touched <= 1

====
